---------------------------- MODULE Spec2Model ----------------------------
(***************************************************************************)
(* A model of inflatelib, a streaming DEFLATE / DEFLATE64 decoder.         *)
(*                                                                         *)
(* The pure parts of the library (bit reader, Huffman tables, window) are  *)
(* operators that compute what the C functions compute; the public entry   *)
(* points (init, reset, destroy, inflate, inflate64) are actions over the  *)
(* stream object, the decoder state and the allocator's heap.              *)
(***************************************************************************)
EXTENDS Integers, Sequences, FiniteSets, TLC

(***************************************************************************)
(* Return codes (inflatelib.h)                                             *)
(***************************************************************************)
INFLATELIB_OK == 0
INFLATELIB_EOF == 1
INFLATELIB_ERROR_ARG == -1
INFLATELIB_ERROR_DATA == -2
INFLATELIB_ERROR_OOM == -3

INFLATELIB_MODE_DEFLATE == 0
INFLATELIB_MODE_DEFLATE64 == 1

Min(a, b) == IF a <= b THEN a ELSE b

Pow2(n) == 2 ^ n

(***************************************************************************)
(* 64-bit unsigned values.  TLC's integers are 32 bits wide, so a uint64_t *)
(* is the tuple of its 64 bits, element i being bit i-1.  Shifts drop the   *)
(* bits that leave the word, as the C operators do.  A shift count outside *)
(* 0..63 is undefined in C; the decoder never produces one, and the        *)
(* operators take the count modulo 64 as the usual hardware does.          *)
(***************************************************************************)
U64Zero == SubSeq([i \in 1..64 |-> 0], 1, 64)

Shr64(v, n) == SubSeq(v, (n % 64) + 1, 64) \o SubSeq(U64Zero, 1, n % 64)

Shl64(v, n) == SubSeq(U64Zero, 1, n % 64) \o SubSeq(v, 1, 64 - (n % 64))

Or64(a, b) == SubSeq([i \in 1..64 |-> IF a[i] = 1 \/ b[i] = 1 THEN 1 ELSE 0], 1, 64)

And64(a, b) == SubSeq([i \in 1..64 |-> IF a[i] = 1 /\ b[i] = 1 THEN 1 ELSE 0], 1, 64)

Not64(a) == SubSeq([i \in 1..64 |-> 1 - a[i]], 1, 64)

\* (uint64_t)x for a value x below 2^16
U64FromInt(x) == SubSeq([i \in 1..64 |-> IF i <= 16 THEN (x \div Pow2(i - 1)) % 2 ELSE 0], 1, 64)

\* ((uint64_t)1 << n) - 1
Mask64(n) == SubSeq([i \in 1..64 |-> IF i <= n THEN 1 ELSE 0], 1, 64)

\* (uint16_t)v and (uint8_t)v
U16Of(v) ==
    v[1] + 2 * v[2] + 4 * v[3] + 8 * v[4] + 16 * v[5] + 32 * v[6] + 64 * v[7] + 128 * v[8]
    + 256 * v[9] + 512 * v[10] + 1024 * v[11] + 2048 * v[12] + 4096 * v[13] + 8192 * v[14]
    + 16384 * v[15] + 32768 * v[16]

U8Of(v) == v[1] + 2 * v[2] + 4 * v[3] + 8 * v[4] + 16 * v[5] + 32 * v[6] + 64 * v[7] + 128 * v[8]

(***************************************************************************)
(* bitstream.c.  `data` is the offset of the next unread byte in the       *)
(* caller's input memory `mem` (a sequence of bytes), `length` the number  *)
(* of bytes readable from there.                                           *)
(***************************************************************************)
bitstream_reset ==
    [data |-> 0, length |-> 0, buffer |-> U64Zero, bits_in_buffer |-> 0,
     extra_buffer |-> 0, bits_in_extra_buffer |-> 0]

\* bitstream_set_data, were it to start the reader afresh
bitstream_set_data_resets(bs, data, length) ==
    [bitstream_reset EXCEPT !.data = data, !.length = length]

bitstream_set_data(bs, data, length) == [bs EXCEPT !.data = data, !.length = length]

bitstream_byte_align(bs) ==
    LET bitsToConsume == (bs.bits_in_buffer + bs.bits_in_extra_buffer) % 8
    IN [bs EXCEPT !.buffer = Or64(Shr64(bs.buffer, bitsToConsume),
                                  Shl64(U64FromInt(bs.extra_buffer), bs.bits_in_buffer - bitsToConsume)),
                  !.bits_in_buffer = bs.bits_in_buffer - bitsToConsume + bs.bits_in_extra_buffer,
                  !.bits_in_extra_buffer = 0,
                  !.extra_buffer = 0]

\* bitstream_byte_align where `buffer` holds fewer bits than are to be dropped:
\* the count of the shift of extra_buffer is then out of range, which the
\* language leaves undefined: the processor takes the count modulo 64, as Shl64
\* does, or the compiler folds the shifted value to zero.
bitstream_byte_align_outcomes(bs) ==
    LET bitsToConsume == (bs.bits_in_buffer + bs.bits_in_extra_buffer) % 8
    IN IF bs.bits_in_buffer >= bitsToConsume
       THEN {bitstream_byte_align(bs)}
       ELSE {bitstream_byte_align(bs),
             [bitstream_byte_align(bs) EXCEPT !.buffer = Shr64(bs.buffer, bitsToConsume)]}

\* The loop of bitstream_copy_bytes that takes whole bytes out of `buffer`.
RECURSIVE CopyFromBuffer(_, _, _)
CopyFromBuffer(bs, n, acc) ==
    IF n = 0 THEN [bs |-> bs, bytes |-> acc]
    ELSE CopyFromBuffer([bs EXCEPT !.buffer = Shr64(bs.buffer, 8),
                                   !.bits_in_buffer = bs.bits_in_buffer - 8],
                        n - 1, Append(acc, U8Of(bs.buffer)))

\* The memcpy from `data` that ends bitstream_copy_bytes; c is the reader and the
\* bytes copied so far, bytesToRead what is still wanted.
CopyFromData(c, bytesToRead, mem) ==
    LET bytesFromData == IF c.bs.length > bytesToRead THEN bytesToRead ELSE c.bs.length
    IN [bs |-> [c.bs EXCEPT !.data = c.bs.data + bytesFromData,
                            !.length = c.bs.length - bytesFromData],
        bytes |-> c.bytes \o SubSeq(mem, c.bs.data + 1, c.bs.data + bytesFromData)]

\* Returns the reader after the copy and the bytes written to `dest`, in order.
bitstream_copy_bytes(bs, bytesToRead, mem) ==
    LET bytesFromBuffer == IF bs.bits_in_buffer \div 8 > bytesToRead THEN bytesToRead
                           ELSE bs.bits_in_buffer \div 8
    IN CopyFromData(CopyFromBuffer(bs, bytesFromBuffer, <<>>), bytesToRead - bytesFromBuffer, mem)

\* The fall-through switch of both fill functions: n times
\* extraData |= (uint64_t)*data << extraBits; ++data; extraBits += 8.
RECURSIVE FillSwitch(_, _, _, _, _)
FillSwitch(extraData, extraBits, data, n, mem) ==
    IF n = 0 THEN [extraData |-> extraData, extraBits |-> extraBits, data |-> data]
    ELSE FillSwitch(Or64(extraData, Shl64(U64FromInt(mem[data + 1]), extraBits)),
                    extraBits + 8, data + 1, n - 1, mem)

\* bitstream_fill_buffer_small after its switch, whose outcome is f
FillSmallStore(bs, f) ==
    [bs EXCEPT !.buffer = Or64(bs.buffer, Shl64(f.extraData, bs.bits_in_buffer)),
               !.bits_in_buffer = bs.bits_in_buffer + f.extraBits,
               !.data = f.data,
               !.length = 0,
               !.extra_buffer = 0,
               !.bits_in_extra_buffer = 0]

bitstream_fill_buffer_small(bs, mem) ==
    FillSmallStore(bs, FillSwitch(U64FromInt(bs.extra_buffer), bs.bits_in_extra_buffer,
                                  bs.data, bs.length, mem))

\* bitstream_fill_buffer after its switch, whose outcome is f
FillStore(bs, f, bytesToRead) ==
    LET bitsAddedToBuffer == 64 - bs.bits_in_buffer
        bitsAddedToExtraBuffer == f.extraBits - (64 - bs.bits_in_buffer)
    IN [bs EXCEPT
          !.data = f.data,
          !.length = bs.length - bytesToRead,
          !.extra_buffer =
              U8Of(And64(Shr64(f.extraData, bitsAddedToBuffer % 64), Mask64(bitsAddedToExtraBuffer))),
          !.bits_in_extra_buffer = bitsAddedToExtraBuffer,
          !.buffer = Or64(bs.buffer,
                          Shl64(And64(f.extraData,
                                      Not64(Shl64(Mask64(bitsAddedToExtraBuffer), bitsAddedToBuffer % 64))),
                                bs.bits_in_buffer % 64)),
          !.bits_in_buffer = 64]

bitstream_fill_buffer(bs, mem) ==
    LET bitsInAllBuffers == bs.bits_in_buffer + bs.bits_in_extra_buffer
    IN IF (bitsInAllBuffers \div 8) + bs.length < 8
       THEN bitstream_fill_buffer_small(bs, mem)
       ELSE FillStore(bs,
                      FillSwitch(U64FromInt(bs.extra_buffer), bs.bits_in_extra_buffer,
                                 bs.data, (71 - bitsInAllBuffers) \div 8, mem),
                      (71 - bitsInAllBuffers) \div 8)

\* the assertions of bitstream_fill_buffer and bitstream_fill_buffer_small
FillAsserts(bs) ==
    LET bitsInAllBuffers == bs.bits_in_buffer + bs.bits_in_extra_buffer
        bytesToRead == (71 - bitsInAllBuffers) \div 8
        extraBits == bs.bits_in_extra_buffer + 8 * bytesToRead
        bitsAddedToBuffer == 64 - bs.bits_in_buffer
        bitsAddedToExtraBuffer == extraBits - bitsAddedToBuffer
    IN IF (bitsInAllBuffers \div 8) + bs.length < 8
       THEN /\ bs.length < 8
            /\ bitsInAllBuffers + bs.length * 8 < 64
       ELSE /\ bytesToRead <= bs.length
            /\ bs.bits_in_buffer + extraBits < 72
            /\ bitsAddedToExtraBuffer < 8
            /\ bitsAddedToBuffer < 64 \/ bitsAddedToExtraBuffer = 0

bitstream_read_bits_unchecked(bs, bitsToRead) ==
    [bs |-> [bs EXCEPT !.buffer = Shr64(bs.buffer, bitsToRead),
                       !.bits_in_buffer = bs.bits_in_buffer - bitsToRead],
     result |-> U16Of(And64(bs.buffer, Mask64(bitsToRead)))]

\* bitstream_read_bits, were a read that cannot be served to drop the bits
\* that are there
bitstream_read_bits_drains(bs, bitsToRead) ==
    IF bs.bits_in_buffer < bitsToRead
    THEN [ok |-> 0, bs |-> [bs EXCEPT !.buffer = U64Zero, !.bits_in_buffer = 0], result |-> 0]
    ELSE [ok |-> 1,
          bs |-> [bs EXCEPT !.buffer = Shr64(bs.buffer, bitsToRead),
                            !.bits_in_buffer = bs.bits_in_buffer - bitsToRead],
          result |-> U16Of(And64(bs.buffer, Mask64(bitsToRead)))]

\* bitstream_read_bits, were the result taken from the top of the 16 low bits
\* of the buffer
bitstream_read_bits_from_top(bs, bitsToRead) ==
    IF bs.bits_in_buffer < bitsToRead
    THEN [ok |-> 0, bs |-> bs, result |-> 0]
    ELSE [ok |-> 1,
          bs |-> [bs EXCEPT !.buffer = Shr64(bs.buffer, bitsToRead),
                            !.bits_in_buffer = bs.bits_in_buffer - bitsToRead],
          result |-> U16Of(bs.buffer) \div Pow2(16 - bitsToRead)]

\* ok = 0: not enough data, nothing consumed
bitstream_read_bits(bs, bitsToRead) ==
    IF bs.bits_in_buffer < bitsToRead
    THEN [ok |-> 0, bs |-> bs, result |-> 0]
    ELSE [ok |-> 1,
          bs |-> [bs EXCEPT !.buffer = Shr64(bs.buffer, bitsToRead),
                            !.bits_in_buffer = bs.bits_in_buffer - bitsToRead],
          result |-> U16Of(And64(bs.buffer, Mask64(bitsToRead)))]

bitstream_peek(bs) ==
    [result |-> U16Of(bs.buffer),
     bits |-> IF bs.bits_in_buffer <= 16 THEN bs.bits_in_buffer ELSE 16]

bitstream_consume_bits(bs, bits) ==
    [bs EXCEPT !.buffer = Shr64(bs.buffer, bits), !.bits_in_buffer = bs.bits_in_buffer - bits]

(***************************************************************************)
(* window.c.  The 64 KiB array `data` is zeroed with the rest of the       *)
(* decoder state by inflatelib_init; it is kept as the sequence of its     *)
(* cells up to the highest one written, every cell after that still        *)
(* holding its initial zero.                                               *)
(***************************************************************************)
DEFLATE64_WINDOW_SIZE == 65536

WinGet(data, i) == IF i < Len(data) THEN data[i + 1] ELSE 0

\* data[off .. off+n-1], without wrapping
WinSlice(data, off, n) == SubSeq([k \in 1..n |-> WinGet(data, off + k - 1)], 1, n)

\* memcpy/memmove of `bytes` to data + off, without wrapping
WinWrite(data, off, bytes) ==
    IF Len(bytes) = 0 THEN data
    ELSE IF off = Len(data) THEN data \o bytes
    ELSE SubSeq(data, 1, Min(off, Len(data)))
         \o SubSeq([i \in 1..off |-> 0], Len(data) + 1, off)
         \o bytes
         \o SubSeq(data, off + Len(bytes) + 1, Len(data))

window_reset(w) ==
    [w EXCEPT !.read_offset = 0, !.write_offset = 0, !.unconsumed_bytes = 0, !.total_bytes = 0]

\* the window of a state that inflatelib_init has just zeroed and initialised
window_init == [read_offset |-> 0, write_offset |-> 0, unconsumed_bytes |-> 0,
                total_bytes |-> 0, data |-> <<>>]

RECURSIVE CopyOutputLoop(_, _, _)
CopyOutputLoop(w, bytesRemaining, acc) ==
    IF bytesRemaining = 0 THEN [w |-> w, bytes |-> acc]
    ELSE LET buffRemaining == DEFLATE64_WINDOW_SIZE - w.read_offset
             bytesToCopy == IF bytesRemaining <= buffRemaining THEN bytesRemaining ELSE buffRemaining
         IN CopyOutputLoop([w EXCEPT !.read_offset = (w.read_offset + bytesToCopy) % 65536],
                           bytesRemaining - bytesToCopy,
                           acc \o WinSlice(w.data, w.read_offset, bytesToCopy))

\* window_copy_output after its loop, whose outcome is c
CopyOutputStore(c, unconsumed) == [c EXCEPT !.w.unconsumed_bytes = unconsumed]

\* Returns the window and the bytes written to `output`, in order.
window_copy_output(w, outputSize) ==
    LET totalBytesToCopy == IF outputSize <= w.unconsumed_bytes THEN outputSize ELSE w.unconsumed_bytes
    IN CopyOutputStore(CopyOutputLoop(w, totalBytesToCopy, <<>>), w.unconsumed_bytes - totalBytesToCopy)

\* the window once `bytes` have been stored at write_offset
WinAdvance(w, bytes) ==
    [w EXCEPT !.data = WinWrite(w.data, w.write_offset, bytes),
              !.write_offset = (w.write_offset + Len(bytes)) % 65536]

\* One iteration of the loop of window_copy_bytes after its bitstream_copy_bytes,
\* whose outcome is c: r holds the window, the reader, the remaining count, the
\* running result and whether the loop goes on.
CopyBytesStore(r, c, bytesToCopy) ==
    [w |-> WinAdvance(r.w, c.bytes), bs |-> c.bs,
     count |-> r.count - Len(c.bytes), result |-> r.result + Len(c.bytes),
     more |-> Len(c.bytes) >= bytesToCopy]

CopyBytesStep(r, bytesToCopy, mem) ==
    CopyBytesStore(r, bitstream_copy_bytes(r.bs, bytesToCopy, mem), bytesToCopy)

RECURSIVE CopyBytesLoop(_, _)
CopyBytesLoop(r, mem) ==
    IF r.count = 0 \/ ~r.more THEN r
    ELSE CopyBytesLoop(
             CopyBytesStep(r, Min(r.count, DEFLATE64_WINDOW_SIZE - r.w.write_offset), mem), mem)

\* window_copy_bytes after its loop, whose outcome is r
CopyBytesTotals(r) ==
    [w |-> [r.w EXCEPT !.total_bytes = @ + r.result, !.unconsumed_bytes = @ + r.result],
     bs |-> r.bs, result |-> r.result]

window_copy_bytes(w, bs, count, mem) ==
    CopyBytesTotals(CopyBytesLoop([w |-> w, bs |-> bs, count |-> count, result |-> 0, more |-> TRUE], mem))

\* the loop of window_copy_length_distance, were it to read up to the end of
\* the buffer whatever has been written so far
RECURSIVE CopyLengthDistanceLoop_single_pass(_, _, _, _, _)
CopyLengthDistanceLoop_single_pass(w, copyIndex, writeSpaceRemaining, length, result) ==
    IF ~(length > 0 /\ writeSpaceRemaining > 0) THEN [w |-> w, result |-> result]
    ELSE LET readRemaining == DEFLATE64_WINDOW_SIZE - copyIndex
             writeRemaining == Min(DEFLATE64_WINDOW_SIZE - w.write_offset, writeSpaceRemaining)
             copySize == Min(Min(length, readRemaining), writeRemaining)
         IN CopyLengthDistanceLoop_single_pass(
                [w EXCEPT !.data = WinWrite(w.data, w.write_offset, WinSlice(w.data, copyIndex, copySize)),
                          !.write_offset = (w.write_offset + copySize) % 65536,
                          !.unconsumed_bytes = w.unconsumed_bytes + copySize,
                          !.total_bytes = w.total_bytes + copySize],
                (copyIndex + copySize) % 65536,
                writeSpaceRemaining - copySize, length - copySize, result + copySize)

RECURSIVE CopyLengthDistanceLoop(_, _, _, _, _)
CopyLengthDistanceLoop(w, copyIndex, writeSpaceRemaining, length, result) ==
    IF ~(length > 0 /\ writeSpaceRemaining > 0) THEN [w |-> w, result |-> result]
    ELSE LET readRemaining == IF copyIndex < w.write_offset
                              THEN w.write_offset - copyIndex
                              ELSE DEFLATE64_WINDOW_SIZE - copyIndex
             writeRemaining == Min(DEFLATE64_WINDOW_SIZE - w.write_offset, writeSpaceRemaining)
             copySize == Min(Min(length, readRemaining), writeRemaining)
         IN CopyLengthDistanceLoop(
                [w EXCEPT !.data = WinWrite(w.data, w.write_offset, WinSlice(w.data, copyIndex, copySize)),
                          !.write_offset = (w.write_offset + copySize) % 65536,
                          !.unconsumed_bytes = w.unconsumed_bytes + copySize,
                          !.total_bytes = w.total_bytes + copySize],
                (copyIndex + copySize) % 65536,
                writeSpaceRemaining - copySize, length - copySize, result + copySize)

\* window_copy_length_distance, were it to start copying one byte too late
window_copy_length_distance_off_by_one(w, distance, length) ==
    IF distance > w.total_bytes THEN [w |-> w, result |-> -1]
    ELSE CopyLengthDistanceLoop(w, (w.write_offset + 2 * 65536 - distance + 1) % 65536,
                                DEFLATE64_WINDOW_SIZE - w.unconsumed_bytes, length, 0)

\* window_copy_length_distance, were the distance held in 16 bits like the
\* offsets of the window
window_copy_length_distance_wraps(w, distance, length) ==
    IF distance % 65536 > w.total_bytes THEN [w |-> w, result |-> -1]
    ELSE CopyLengthDistanceLoop(w, (w.write_offset + 2 * 65536 - distance) % 65536,
                                DEFLATE64_WINDOW_SIZE - w.unconsumed_bytes, length, 0)

\* window_copy_length_distance, were it to take the whole buffer for free space
window_copy_length_distance_overwrites(w, distance, length) ==
    IF distance > w.total_bytes THEN [w |-> w, result |-> -1]
    ELSE CopyLengthDistanceLoop(w, (w.write_offset + 2 * 65536 - distance) % 65536,
                                DEFLATE64_WINDOW_SIZE, length, 0)

\* result = -1: invalid distance
window_copy_length_distance(w, distance, length) ==
    IF distance > w.total_bytes THEN [w |-> w, result |-> -1]
    ELSE CopyLengthDistanceLoop(w, (w.write_offset + 2 * 65536 - distance) % 65536,
                                DEFLATE64_WINDOW_SIZE - w.unconsumed_bytes, length, 0)

\* ok = 0: the buffer is full
window_write_byte(w, byte) ==
    IF w.unconsumed_bytes >= DEFLATE64_WINDOW_SIZE THEN [ok |-> 0, w |-> w]
    ELSE [ok |-> 1,
          w |-> [w EXCEPT !.data = WinWrite(w.data, w.write_offset, <<byte>>),
                          !.write_offset = (w.write_offset + 1) % 65536,
                          !.unconsumed_bytes = w.unconsumed_bytes + 1,
                          !.total_bytes = w.total_bytes + 1]]

\* window_write_byte_consume, were it to leave the read offset behind
window_write_byte_consume_lags(w, byte) ==
    [w EXCEPT !.data = WinWrite(w.data, w.write_offset, <<byte>>),
              !.write_offset = (w.write_offset + 1) % 65536,
              !.total_bytes = w.total_bytes + 1]

window_write_byte_consume(w, byte) ==
    [w EXCEPT !.data = WinWrite(w.data, w.write_offset, <<byte>>),
              !.write_offset = (w.write_offset + 1) % 65536,
              !.read_offset = (w.read_offset + 1) % 65536,
              !.total_bytes = w.total_bytes + 1]

(***************************************************************************)
(* huffman_tree.c.  A tree is its table_bits, table_mask, data_size, the   *)
(* heap block `data` (0 is NULL) and `entries`, the contents of that       *)
(* block: entry i of the C array is entries[i + 1].  malloc does not       *)
(* initialise the block, so a fresh entry holds Indeterminate.  A store    *)
(* past the end of the block makes `entries` longer than data_size.        *)
(***************************************************************************)
MAX_CODE_LENGTH == 15
LITERAL_TREE_MAX_ELEMENT_COUNT == 288
DIST_TREE_MAX_ELEMENT_COUNT == 32
CODE_LENGTH_TREE_ELEMENT_COUNT == 19

CODE_LENGTH_TREE_ARRAY_SIZE == 128
DISTANCE_TREE_ARRAY_SIZE == 204
LITERAL_LENGTH_TREE_ARRAY_SIZE == 1088

Indeterminate == "indeterminate"

huffman_table_entry(len, sym) == [code_length |-> len, symbol |-> sym]

EntryGet(entries, i) == entries[i + 1]

EntryPut(entries, i, e) ==
    IF i < Len(entries) THEN [entries EXCEPT ![i + 1] = e]
    ELSE entries
         \o SubSeq([k \in 1..(i - Len(entries)) |-> huffman_table_entry(Indeterminate, Indeterminate)],
                   1, i - Len(entries))
         \o <<e>>

\* entries[i].code_length = 0, the symbol keeping what the cell held
EntryClearLength(entries, i) ==
    EntryPut(entries, i,
             huffman_table_entry(0, IF i < Len(entries) THEN EntryGet(entries, i).symbol
                                    ELSE Indeterminate))

\* The tree as huffman_tree_init leaves it when the allocation returned block `ptr`.
huffman_tree_init(dictionarySize, ptr) ==
    LET bits == IF dictionarySize = LITERAL_TREE_MAX_ELEMENT_COUNT THEN 9 ELSE 7
        size == IF dictionarySize = LITERAL_TREE_MAX_ELEMENT_COUNT THEN LITERAL_LENGTH_TREE_ARRAY_SIZE
                ELSE IF dictionarySize = DIST_TREE_MAX_ELEMENT_COUNT THEN DISTANCE_TREE_ARRAY_SIZE
                ELSE CODE_LENGTH_TREE_ARRAY_SIZE
    IN [table_bits |-> bits, data_size |-> size, table_mask |-> Pow2(bits) - 1, data |-> ptr,
        entries |-> IF ptr = 0 THEN <<>>
                    ELSE SubSeq([k \in 1..size |-> huffman_table_entry(Indeterminate, Indeterminate)],
                                1, size)]

ReverseTable == <<0, 8, 4, 12, 2, 10, 6, 14, 1, 9, 5, 13, 3, 11, 7, 15>>

RECURSIVE ReverseLoop(_, _, _, _)
ReverseLoop(value, bitCount, result, count) ==
    IF count < bitCount
    THEN ReverseLoop(value \div 16, bitCount,
                     ((result * 16) % 65536) + ReverseTable[(value % 16) + 1], count + 4)
    ELSE result \div Pow2(count - bitCount)

reverse_bits(value, bitCount) == ReverseLoop(value, bitCount, 0, 0)

\* STEP 1 of huffman_tree_reset: bitLengthCount[l] is element l + 1
BitLengthCount(codeLengths, codeLengthsSize) ==
    SubSeq([l \in 1..(MAX_CODE_LENGTH + 1) |->
               Cardinality({i \in 1..codeLengthsSize : codeLengths[i] = l - 1})],
           1, MAX_CODE_LENGTH + 1)

\* STEP 2: ok = 0 when length i is over-subscribed
\* STEP 2 counting only the codes of the length at hand against 2^i
RECURSIVE NextCodesLoop_per_length(_, _, _, _)
NextCodesLoop_per_length(i, nextCode, nextCodes, bitLengthCount) ==
    IF i > MAX_CODE_LENGTH THEN [ok |-> 1, nextCodes |-> nextCodes, i |-> i]
    ELSE IF bitLengthCount[i + 1] > Pow2(i)
    THEN [ok |-> 0, nextCodes |-> [nextCodes EXCEPT ![i] = (nextCode * 2) % 65536], i |-> i]
    ELSE NextCodesLoop_per_length(i + 1, (((nextCode * 2) % 65536) + bitLengthCount[i + 1]) % 65536,
                                  [nextCodes EXCEPT ![i] = (nextCode * 2) % 65536], bitLengthCount)

RECURSIVE NextCodesLoop(_, _, _, _)
NextCodesLoop(i, nextCode, nextCodes, bitLengthCount) ==
    IF i > MAX_CODE_LENGTH THEN [ok |-> 1, nextCodes |-> nextCodes, i |-> i]
    ELSE IF (((nextCode * 2) % 65536) + bitLengthCount[i + 1]) % 65536 > Pow2(i)
    THEN [ok |-> 0, nextCodes |-> [nextCodes EXCEPT ![i] = (nextCode * 2) % 65536], i |-> i]
    ELSE NextCodesLoop(i + 1, (((nextCode * 2) % 65536) + bitLengthCount[i + 1]) % 65536,
                       [nextCodes EXCEPT ![i] = (nextCode * 2) % 65536], bitLengthCount)

\* the loop `while (code <= tree->table_mask)`: iterations lo..hi of it, iteration k
\* storing e at code + k * increment (the range is halved so that the evaluation
\* stays shallow)
RECURSIVE TableFillRange(_, _, _, _, _, _)
TableFillRange(entries, code, increment, lo, hi, e) ==
    IF lo > hi \/ Len(entries) < 0 THEN entries
    ELSE IF lo = hi THEN EntryPut(entries, code + lo * increment, e)
    ELSE TableFillRange(TableFillRange(entries, code, increment, lo, (lo + hi) \div 2, e),
                        code, increment, ((lo + hi) \div 2) + 1, hi, e)

TableFill(entries, code, increment, mask, e) ==
    IF code > mask THEN entries
    ELSE TableFillRange(entries, code, increment, 0, (mask - code) \div increment, e)

\* the loop, were every code to get nodes of its own
RECURSIVE TreeWalk_never_shares(_, _, _, _, _, _, _)
TreeWalk_never_shares(entries, entry, code, currentLen, len, nextTreeInsertIndex, treeBase) ==
    IF currentLen >= len
    THEN [entries |-> entries, entry |-> entry, nextTreeInsertIndex |-> nextTreeInsertIndex]
    ELSE TreeWalk_never_shares(
             EntryClearLength(
                 EntryClearLength(
                     EntryPut(entries, entry, huffman_table_entry(15, nextTreeInsertIndex)),
                     treeBase + 2 * nextTreeInsertIndex),
                 treeBase + 2 * nextTreeInsertIndex + 1),
             treeBase + 2 * nextTreeInsertIndex + (code % 2), code \div 2, currentLen + 1, len,
             nextTreeInsertIndex + 1, treeBase)

\* the loop `for (currentLen = table_bits; currentLen < len; ++currentLen)`;
\* `entry` is the index of the entry the C pointer designates
RECURSIVE TreeWalk(_, _, _, _, _, _, _)
TreeWalk(entries, entry, code, currentLen, len, nextTreeInsertIndex, treeBase) ==
    IF currentLen >= len
    THEN [entries |-> entries, entry |-> entry, nextTreeInsertIndex |-> nextTreeInsertIndex]
    ELSE IF EntryGet(entries, entry).code_length = 0
    THEN TreeWalk(EntryClearLength(
                      EntryClearLength(
                          EntryPut(entries, entry, huffman_table_entry(15, nextTreeInsertIndex)),
                          treeBase + 2 * nextTreeInsertIndex),
                      treeBase + 2 * nextTreeInsertIndex + 1),
                  treeBase + 2 * nextTreeInsertIndex + (code % 2), code \div 2, currentLen + 1, len,
                  nextTreeInsertIndex + 1, treeBase)
    ELSE TreeWalk(entries, treeBase + (EntryGet(entries, entry).symbol * 2) + (code % 2),
                  code \div 2, currentLen + 1, len, nextTreeInsertIndex, treeBase)

\* the stores `entry->code_length = len; entry->symbol = i` that end the tree branch;
\* t is the outcome of the walk
AssignLeaf(i, len, nextCodes, t) ==
    [entries |-> EntryPut(t.entries, t.entry, huffman_table_entry(len, i)),
     nextCodes |-> nextCodes,
     nextTreeInsertIndex |-> t.nextTreeInsertIndex]

\* STEP 3 for symbol i of length len # 0, whose code is `code`
AssignCode(i, tree, st, len, code) ==
    IF len <= tree.table_bits
    THEN [entries |-> TableFill(st.entries, code, Pow2(len), tree.table_mask,
                                huffman_table_entry(len, i)),
          nextCodes |-> [st.nextCodes EXCEPT ![len] = (@ + 1) % 65536],
          nextTreeInsertIndex |-> st.nextTreeInsertIndex]
    ELSE AssignLeaf(i, len, [st.nextCodes EXCEPT ![len] = (@ + 1) % 65536],
                    TreeWalk(st.entries, code % Pow2(tree.table_bits),
                             code \div Pow2(tree.table_bits), tree.table_bits, len,
                             st.nextTreeInsertIndex, Pow2(tree.table_bits)))

\* STEP 3, the body of the loop for symbol i; st holds the entries written so far,
\* nextCodes and nextTreeInsertIndex
\* STEP 3 storing each code as it was numbered, most significant bit first
AssignSymbol_msb_first(i, tree, st, codeLengths) ==
    IF codeLengths[i + 1] = 0 THEN st
    ELSE AssignCode(i, tree, st, codeLengths[i + 1], st.nextCodes[codeLengths[i + 1]])

AssignSymbol(i, tree, st, codeLengths) ==
    IF codeLengths[i + 1] = 0 THEN st
    ELSE AssignCode(i, tree, st, codeLengths[i + 1],
                    reverse_bits(st.nextCodes[codeLengths[i + 1]], codeLengths[i + 1]))

\* STEP 3 for the symbols lo..hi in increasing order (the range is halved so that
\* the evaluation stays shallow)
RECURSIVE AssignLoop(_, _, _, _, _)
AssignLoop(lo, hi, tree, st, codeLengths) ==
    IF lo > hi \/ st.nextTreeInsertIndex < 0 THEN st
    ELSE IF lo = hi THEN AssignSymbol(lo, tree, st, codeLengths)
    ELSE AssignLoop(((lo + hi) \div 2) + 1, hi, tree,
                    AssignLoop(lo, (lo + hi) \div 2, tree, st, codeLengths), codeLengths)

\* memset(tree->data, 0, (0x01 << tree->table_bits) * sizeof(huffman_table_entry))
ZeroLookupTable(tree) ==
    SubSeq([k \in 1..Pow2(tree.table_bits) |-> huffman_table_entry(0, 0)], 1, Pow2(tree.table_bits))
    \o SubSeq(tree.entries, Pow2(tree.table_bits) + 1, Len(tree.entries))

\* huffman_tree_reset after STEP 2, whose outcome is nc
ResetAssign(tree, codeLengths, codeLengthsSize, bitLengthCount, nc) ==
    IF nc.ok = 0
    THEN [result |-> INFLATELIB_ERROR_DATA,
          tree |-> [tree EXCEPT !.entries = ZeroLookupTable(tree)],
          args |-> <<nc.i, bitLengthCount[nc.i + 1], nc.nextCodes[nc.i]>>]
    ELSE [result |-> INFLATELIB_OK, args |-> <<>>,
          tree |-> [tree EXCEPT !.entries =
              AssignLoop(0, codeLengthsSize - 1, tree,
                         [entries |-> ZeroLookupTable(tree), nextCodes |-> nc.nextCodes,
                          nextTreeInsertIndex |-> 0],
                         codeLengths).entries]]

\* huffman_tree_reset after STEP 1, whose outcome is bitLengthCount
ResetCodes(tree, codeLengths, codeLengthsSize, bitLengthCount) ==
    ResetAssign(tree, codeLengths, codeLengthsSize, bitLengthCount,
                NextCodesLoop(1, 0, <<0, 0, 0, 0, 0, 0, 0, 0, 0, 0, 0, 0, 0, 0, 0>>, bitLengthCount))

\* result is INFLATELIB_OK or INFLATELIB_ERROR_DATA (over-subscribed code lengths;
\* the table is then left with its lookup part zeroed); args are the arguments of
\* the error message
huffman_tree_reset(tree, codeLengths, codeLengthsSize) ==
    ResetCodes(tree, codeLengths, codeLengthsSize, BitLengthCount(codeLengths, codeLengthsSize))

\* the do/while walk of the binary tree part; r = 0: not enough data
RECURSIVE LookupWalk(_, _, _, _, _, _)
LookupWalk(tree, tableEntry, bitsRead, remainingInput, bits, checked) ==
    IF checked /\ bitsRead >= bits THEN [r |-> 0, tableEntry |-> tableEntry]
    ELSE LET e == EntryGet(tree.entries,
                           Pow2(tree.table_bits) + (2 * tableEntry.symbol) + (remainingInput % 2))
         IN IF e.code_length > bitsRead + 1
            THEN LookupWalk(tree, e, bitsRead + 1, remainingInput \div 2, bits, checked)
            ELSE [r |-> 1, tableEntry |-> e]

\* the end of both lookup functions; w is the entry the table and the walk led to
LookupFinish(bs, w) ==
    IF w.r = 0 THEN [r |-> 0, symbol |-> 0, bs |-> bs]
    ELSE IF w.tableEntry.code_length = 0 THEN [r |-> -1, symbol |-> 0, bs |-> bs]
    ELSE [r |-> 1, symbol |-> w.tableEntry.symbol,
          bs |-> bitstream_consume_bits(bs, w.tableEntry.code_length)]

\* the lookup giving up the bits at hand when it asks for more
LookupEntry_consumes(tree, bs, checked, p, first) ==
    IF checked /\ first.code_length > p.bits /\ p.bits <= tree.table_bits
    THEN [r |-> 0, symbol |-> 0, bs |-> bitstream_consume_bits(bs, p.bits)]
    ELSE IF first.code_length > tree.table_bits
    THEN LookupFinish(bs, LookupWalk(tree, first, tree.table_bits,
                                     p.result \div Pow2(tree.table_bits), p.bits, checked))
    ELSE LookupFinish(bs, [r |-> 1, tableEntry |-> first])

\* both lookup functions once the table entry `first` has been fetched for the
\* peeked input p
LookupEntry(tree, bs, checked, p, first) ==
    IF checked /\ first.code_length > p.bits /\ p.bits <= tree.table_bits
    THEN [r |-> 0, symbol |-> 0, bs |-> bs]
    ELSE IF first.code_length > tree.table_bits
    THEN LookupFinish(bs, LookupWalk(tree, first, tree.table_bits,
                                     p.result \div Pow2(tree.table_bits), p.bits, checked))
    ELSE LookupFinish(bs, [r |-> 1, tableEntry |-> first])

\* the lookup on a peeked value whose bits beyond those at hand are ones
HuffmanLookup_ones_above(tree, bs, checked, p) ==
    LookupEntry(tree, bs, checked, p,
                EntryGet(tree.entries, (p.result + 65536 - Pow2(p.bits)) % Pow2(tree.table_bits)))

\* r = 1: symbol decoded and its bits consumed; 0: not enough data; -1: not a code
HuffmanLookup(tree, bs, checked, p) ==
    LookupEntry(tree, bs, checked, p, EntryGet(tree.entries, p.result % Pow2(tree.table_bits)))

(***************************************************************************)
(* The allocator behind the stream's alloc / free callbacks.  `live` is    *)
(* the set of blocks handed out and not yet released; releasing a block    *)
(* that is not live sets double_free.  An allocation may fail.             *)
(***************************************************************************)
MaxBlocks == 6

HeapAlloc(heap) ==
    LET ptr == CHOOSE p \in 1..MaxBlocks : p \notin heap.live /\ \A q \in 1..(p - 1) : q \in heap.live
    IN [heap |-> [heap EXCEPT !.live = @ \cup {ptr}], ptr |-> ptr]

HeapFree(heap, ptr) ==
    IF ptr \in heap.live THEN [heap EXCEPT !.live = @ \ {ptr}]
    ELSE [heap EXCEPT !.double_free = TRUE]

(***************************************************************************)
(* internal.h: the decoder state.  The members of the union `data` are     *)
(* kept as separate fields (each is written before it is read in the mode  *)
(* that uses it).  `mode` and ifstate_init are used by inflate.c but are   *)
(* declared nowhere in the sources at hand.                                *)
(***************************************************************************)
inflate_state ==
    << "ifstate_reading_bfinal", "ifstate_reading_btype",
       "ifstate_reading_uncompressed_block_len", "ifstate_reading_uncompressed_block_len_complement",
       "ifstate_reading_uncompressed_data",
       "ifstate_reading_num_lit_codes", "ifstate_reading_num_dist_codes",
       "ifstate_reading_num_code_len_codes", "ifstate_reading_code_len_codes",
       "ifstate_reading_tree_codes_before", "ifstate_reading_tree_codes_after",
       "ifstate_reading_literal_length_code", "ifstate_decoding_literal_length_code",
       "ifstate_reading_length_extra_bits", "ifstate_reading_distance_code",
       "ifstate_reading_distance_extra_bits", "ifstate_copying_length_distance_from_window",
       "ifstate_copying_output_from_window", "ifstate_eof" >>

\* the enumerator's value
IfstateValue(s) == (CHOOSE i \in 1..Len(inflate_state) : inflate_state[i] = s) - 1

ifstate_init == "ifstate_init"

\* the state block after memset(state, 0, sizeof(*state))
ZeroTree == [table_bits |-> 0, table_mask |-> 0, data_size |-> 0, data |-> 0, entries |-> <<>>]

inflatelib_state ==
    [bitstream |-> bitstream_reset, window |-> window_init, error_msg_fmt |-> 0,
     ifstate |-> "ifstate_reading_bfinal", mode |-> 0, btype |-> 0, bfinal |-> 0,
     code_length_tree |-> ZeroTree, literal_length_tree |-> ZeroTree, distance_tree |-> ZeroTree,
     block_len |-> 0,
     literal_length_code_count |-> 0, distance_code_count |-> 0, code_length_code_count |-> 0,
     length_code |-> 0, loop_counter |-> 0,
     code_lengths |-> SubSeq([k \in 1..(LITERAL_TREE_MAX_ELEMENT_COUNT + DIST_TREE_MAX_ELEMENT_COUNT) |-> 0],
                             1, LITERAL_TREE_MAX_ELEMENT_COUNT + DIST_TREE_MAX_ELEMENT_COUNT),
     extra_bits |-> 0, symbol |-> 0, block_length |-> 0, block_distance |-> 0]


(***************************************************************************)
(* inflate.c.  A call works on a context cx: the decoder state, the        *)
(* stream's avail_out, the bytes written to next_out during the call       *)
(* (`output`), error_msg, the heap, the caller's input memory `mem` and    *)
(* whether an allocation made during the call fails (`oom`).  `result`,    *)
(* `keepGoing`, `pc` and `ret` are the C locals and the position of        *)
(* control: ret = TRUE once inflater_process_data has returned.            *)
(*                                                                         *)
(* error_msg is [ptr, text]: ptr = 0 for NULL (text <<>>) and for string   *)
(* literals, ptr = the block for a formatted message.                      *)
(***************************************************************************)
StaticMsg(text) == [ptr |-> 0, text |-> <<text>>]

\* the allocation and the formatting that end format_error_message; a is the
\* outcome of the allocation
FormatStore(cx, text, a) ==
    [cx |-> [cx EXCEPT !.heap = a.heap, !.state.error_msg_fmt = a.ptr,
                       !.error_msg = [ptr |-> a.ptr, text |-> text]],
     result |-> INFLATELIB_OK]

\* format_error_message once the previous formatted message has been released
FormatAlloc(cx, text) ==
    IF cx.oom
    THEN [cx |-> [cx EXCEPT !.error_msg = StaticMsg("Failed to allocate space for error message")],
          result |-> INFLATELIB_ERROR_OOM]
    ELSE FormatStore(cx, text, HeapAlloc(cx.heap))

format_error_message(cx, text) ==
    IF cx.state.error_msg_fmt # 0
    THEN FormatAlloc([cx EXCEPT !.error_msg = IF @.ptr = cx.state.error_msg_fmt
                                              THEN [ptr |-> 0, text |-> <<>>] ELSE @,
                                !.heap = HeapFree(@, cx.state.error_msg_fmt),
                                !.state.error_msg_fmt = 0],
                     text)
    ELSE FormatAlloc(cx, text)

\* the fallback of every caller of format_error_message; f is its outcome
ErrorFallback(f, fallback) ==
    IF f.result < 0 THEN [f.cx EXCEPT !.error_msg = StaticMsg(fallback)] ELSE f.cx

\* if (format_error_message(stream, ...) < 0) { stream->error_msg = fallback; }
ErrorMessage(cx, text, fallback) == ErrorFallback(format_error_message(cx, text), fallback)

\* The bit reader is loaded from the input before each read or peek.
FillBuffer(cx) == bitstream_fill_buffer(cx.state.bitstream, cx.mem)

\* bitstream_read_bits on the loaded reader
ReadBits(cx, bitsToRead) == bitstream_read_bits(FillBuffer(cx), bitsToRead)

\* the error message and the return of both lookup functions; p is the peeked
\* input and l the outcome of the lookup
TreeLookupResult(cx, p, l) ==
    [r |-> l.r, symbol |-> l.symbol,
     cx |-> IF l.r < 0
            THEN ErrorMessage([cx EXCEPT !.state.bitstream = l.bs],
                              <<"Input bit sequence 0x%.*X is not a valid Huffman code for the encoded table",
                                (p.bits + 7) \div 8, p.result % Pow2(p.bits)>>,
                              "Input bit sequence is not a valid Huffman code for the encoded table")
            ELSE [cx EXCEPT !.state.bitstream = l.bs]]

TreeLookupLoaded(cx, name, checked, bs) ==
    TreeLookupResult(cx, bitstream_peek(bs),
                     HuffmanLookup(cx.state[name], bs, checked, bitstream_peek(bs)))

\* huffman_tree_lookup / huffman_tree_lookup_unchecked on the tree state->[name]
TreeLookup(cx, name, checked) == TreeLookupLoaded(cx, name, checked, FillBuffer(cx))

huffman_tree_lookup(cx, name) == TreeLookup(cx, name, TRUE)

huffman_tree_lookup_unchecked(cx, name) == TreeLookup(cx, name, FALSE)

\* the error message and the return of huffman_tree_reset, whose outcome is t
TreeResetResult(cx, name, t) ==
    IF t.result < 0
    THEN ErrorMessage([cx EXCEPT !.state[name] = t.tree, !.result = t.result],
                      <<"Too many symbols with code length %zu. %u symbols starting at 0x%X exceeds the specified number of bits">>
                          \o t.args,
                      "Not all symbols can be represented using the specified number of bits")
    ELSE [cx EXCEPT !.state[name] = t.tree, !.result = t.result]

\* huffman_tree_reset on the tree state->[name], with its error message
TreeReset(cx, name, codeLengths, codeLengthsSize) ==
    TreeResetResult(cx, name, huffman_tree_reset(cx.state[name], codeLengths, codeLengthsSize))

\* next_out and avail_out after window_copy_output, whose outcome is c
CopyOutputStream(cx, c) ==
    [cx EXCEPT !.state.window = c.w, !.output = @ \o c.bytes, !.avail_out = @ - Len(c.bytes)]

\* bytesCopied = window_copy_output(&state->window, next_out, avail_out);
\* next_out += bytesCopied; avail_out -= bytesCopied
CopyOutput(cx) == CopyOutputStream(cx, window_copy_output(cx.state.window, cx.avail_out))

\* BlockDone, were it to end the stream after any block
BlockDone_ignores_bfinal(cx) == [cx EXCEPT !.state.ifstate = "ifstate_eof"]

\* state->ifstate = state->bfinal ? ifstate_eof : ifstate_reading_bfinal
BlockDone(cx) ==
    [cx EXCEPT !.state.ifstate = IF cx.state.bfinal # 0 THEN "ifstate_eof" ELSE "ifstate_reading_bfinal"]

\* case ifstate_reading_uncompressed_block_len, r being what was read
UncompressedLenRead(cx, r) ==
    IF r.ok = 0 THEN [cx EXCEPT !.state.bitstream = r.bs, !.pc = "return"]
    ELSE [cx EXCEPT !.state.bitstream = r.bs, !.state.block_len = r.result,
                    !.state.ifstate = "ifstate_reading_uncompressed_block_len_complement"]

UncompressedLen(cx) ==
    IF cx.state.ifstate # "ifstate_reading_uncompressed_block_len" THEN cx
    ELSE UncompressedLenRead(cx, ReadBits(cx, 16))

\* case ifstate_reading_uncompressed_block_len_complement, were NLEN read and
\* never compared with LEN
UncompressedComplementRead_unchecked(cx, r) ==
    IF r.ok = 0 THEN [cx EXCEPT !.state.bitstream = r.bs, !.pc = "return"]
    ELSE [cx EXCEPT !.state.bitstream = r.bs, !.state.ifstate = "ifstate_reading_uncompressed_data"]

\* case ifstate_reading_uncompressed_block_len_complement, r being what was read
UncompressedComplementRead(cx, r) ==
    IF r.ok = 0 THEN [cx EXCEPT !.state.bitstream = r.bs, !.pc = "return"]
    ELSE IF cx.state.block_len # 65535 - r.result
    THEN [ErrorMessage([cx EXCEPT !.state.bitstream = r.bs],
              <<"Uncompressed block length (%04X) does not match its encoded one's complement value (%04X)",
                cx.state.block_len, r.result>>,
              "Uncompressed block length does not match its encoded one's complement value")
          EXCEPT !.pc = "return", !.result = INFLATELIB_ERROR_DATA]
    ELSE [cx EXCEPT !.state.bitstream = r.bs, !.state.ifstate = "ifstate_reading_uncompressed_data"]

UncompressedComplement(cx) ==
    IF cx.pc = "return" \/ cx.state.ifstate # "ifstate_reading_uncompressed_block_len_complement"
    THEN cx
    ELSE UncompressedComplementRead(cx, ReadBits(cx, 16))

\* the end of case ifstate_reading_uncompressed_data, were the block over as
\* soon as its bytes are in the window
UncompressedDataDone_ignores_window(cx) ==
    IF cx.state.block_len = 0 THEN BlockDone(cx) ELSE cx

\* the end of case ifstate_reading_uncompressed_data
UncompressedDataDone(cx) ==
    IF cx.state.block_len = 0 /\ cx.state.window.unconsumed_bytes = 0 THEN BlockDone(cx) ELSE cx

\* case ifstate_reading_uncompressed_data after window_copy_bytes, whose outcome is c
UncompressedDataCopied(cx, c) ==
    UncompressedDataDone(CopyOutput([cx EXCEPT !.state.window = c.w, !.state.bitstream = c.bs,
                                               !.state.block_len = @ - c.result]))

UncompressedData(cx) ==
    IF cx.pc = "return" THEN cx
    ELSE UncompressedDataCopied(cx, window_copy_bytes(cx.state.window, cx.state.bitstream,
                                                       cx.state.block_len, cx.mem))

inflater_read_uncompressed(cx) ==
    UncompressedData(UncompressedComplement(UncompressedLen(
        [cx EXCEPT !.pc = "run", !.result = INFLATELIB_OK])))

StaticLiteralLengths ==
    SubSeq([i \in 1..288 |-> IF i <= 144 THEN 8 ELSE IF i <= 256 THEN 9
                             ELSE IF i <= 280 THEN 7 ELSE 8], 1, 288)

StaticDistanceLengths == SubSeq([i \in 1..32 |-> 5], 1, 32)

inflater_init_static_tables(cx) ==
    TreeReset(TreeReset(cx, "literal_length_tree", StaticLiteralLengths, 288),
              "distance_tree", StaticDistanceLengths, 32)

code_order == <<16, 17, 18, 0, 8, 7, 9, 6, 10, 5, 11, 4, 12, 3, 13, 2, 14, 1, 15>>

\* case ifstate_reading_num_lit_codes, r being what was read
NumLitCodesRead(cx, r) ==
    IF r.ok = 0 THEN [cx EXCEPT !.state.bitstream = r.bs, !.pc = "return"]
    ELSE [cx EXCEPT !.state.bitstream = r.bs,
                    !.state.literal_length_code_count = r.result + 257,
                    !.state.ifstate = "ifstate_reading_num_dist_codes"]

NumLitCodes(cx) ==
    IF cx.state.ifstate # "ifstate_reading_num_lit_codes" THEN cx
    ELSE NumLitCodesRead(cx, ReadBits(cx, 5))

\* case ifstate_reading_num_dist_codes, r being what was read
NumDistCodesRead(cx, r) ==
    IF r.ok = 0 THEN [cx EXCEPT !.state.bitstream = r.bs, !.pc = "return"]
    ELSE [cx EXCEPT !.state.bitstream = r.bs,
                    !.state.distance_code_count = r.result + 1,
                    !.state.ifstate = "ifstate_reading_num_code_len_codes"]

NumDistCodes(cx) ==
    IF cx.pc = "return" \/ cx.state.ifstate # "ifstate_reading_num_dist_codes" THEN cx
    ELSE NumDistCodesRead(cx, ReadBits(cx, 5))

\* case ifstate_reading_num_code_len_codes, r being what was read
NumCodeLenCodesRead(cx, r) ==
    IF r.ok = 0 THEN [cx EXCEPT !.state.bitstream = r.bs, !.pc = "return"]
    ELSE [cx EXCEPT !.state.bitstream = r.bs,
                    !.state.code_length_code_count = r.result + 4,
                    !.state.loop_counter = 0,
                    !.state.ifstate = "ifstate_reading_code_len_codes"]

NumCodeLenCodes(cx) ==
    IF cx.pc = "return" \/ cx.state.ifstate # "ifstate_reading_num_code_len_codes" THEN cx
    ELSE NumCodeLenCodesRead(cx, ReadBits(cx, 4))

\* the body of `while (loop_counter < code_length_code_count)`, r being what was read
CodeLenCodesRead(cx, r) ==
    IF r.ok = 0
    THEN [cx EXCEPT !.state.bitstream = r.bs, !.pc = "return", !.result = INFLATELIB_OK]
    ELSE [cx EXCEPT !.state.bitstream = r.bs,
                    !.state.code_lengths[code_order[cx.state.loop_counter + 1] + 1] = r.result,
                    !.state.loop_counter = @ + 1]

\* the loop `while (loop_counter < code_length_code_count)`
RECURSIVE CodeLenCodesLoop(_)
CodeLenCodesLoop(cx) ==
    IF cx.pc = "return" \/ ~(cx.state.loop_counter < cx.state.code_length_code_count) THEN cx
    ELSE CodeLenCodesLoop(CodeLenCodesRead(cx, ReadBits(cx, 3)))

\* the loop `while (loop_counter < arraysize(code_order))` that zeroes the rest
CodeLenCodesZeroRest(cx) ==
    [cx EXCEPT !.state.code_lengths =
                   SubSeq([k \in 1..Len(@) |->
                              IF \E j \in (cx.state.loop_counter + 1)..Len(code_order) :
                                     code_order[j] + 1 = k
                              THEN 0 ELSE @[k]],
                          1, Len(@)),
               !.state.loop_counter = Len(code_order)]

\* the end of case ifstate_reading_code_len_codes, after the huffman_tree_reset
CodeLenTreeBuilt(cx) ==
    IF cx.result < 0 THEN [cx EXCEPT !.pc = "return"]
    ELSE [cx EXCEPT !.state.loop_counter = 0, !.state.ifstate = "ifstate_reading_tree_codes_before"]

\* case ifstate_reading_code_len_codes after its first loop
CodeLenCodesDone(cx) ==
    IF cx.pc = "return" THEN cx
    ELSE CodeLenTreeBuilt(TreeReset(CodeLenCodesZeroRest(cx), "code_length_tree",
                                    CodeLenCodesZeroRest(cx).state.code_lengths,
                                    CODE_LENGTH_TREE_ELEMENT_COUNT))

CodeLenCodes(cx) ==
    IF cx.pc = "return" \/ cx.state.ifstate # "ifstate_reading_code_len_codes" THEN cx
    ELSE CodeLenCodesDone(CodeLenCodesLoop(cx))

\* code_lengths[loop_counter++] = value, `data` times, and the end of the loop body
TreeCodesFill(cx, value, data) ==
    [cx EXCEPT !.state.code_lengths =
                   SubSeq(@, 1, cx.state.loop_counter)
                   \o SubSeq([k \in 1..data |-> value], 1, data)
                   \o SubSeq(@, cx.state.loop_counter + data + 1, Len(@)),
               !.state.loop_counter = @ + data,
               !.state.ifstate = "ifstate_reading_tree_codes_before"]

\* the repeat codes, were the repeat count checked against the size of the
\* code_lengths array instead of the number of codes the block declares
TreeCodesRepeat_array_size(cx, r, repeatBase) ==
    LET loop_counter == cx.state.loop_counter
        data == r.result + repeatBase
    IN IF r.ok = 0
       THEN [cx EXCEPT !.state.bitstream = r.bs, !.state.ifstate = "ifstate_reading_tree_codes_after",
                       !.pc = "return", !.result = INFLATELIB_OK]
       ELSE IF cx.state.length_code = 16 /\ loop_counter = 0
       THEN [cx EXCEPT !.state.bitstream = r.bs,
                       !.error_msg = StaticMsg("Code length repeat code encountered at beginning of data"),
                       !.pc = "return", !.result = INFLATELIB_ERROR_DATA]
       ELSE IF loop_counter + data > Len(cx.state.code_lengths)
       THEN [cx EXCEPT !.state.bitstream = r.bs,
                       !.error_msg = StaticMsg("Code length repeat code specifies more repetitions than codes remain"),
                       !.pc = "return", !.result = INFLATELIB_ERROR_DATA]
       ELSE TreeCodesFill([cx EXCEPT !.state.bitstream = r.bs],
                          IF cx.state.length_code = 16 THEN cx.state.code_lengths[loop_counter] ELSE 0,
                          data)

\* the repeat codes, were the repeat count not checked against the codes that remain
TreeCodesRepeat_unchecked(cx, r, repeatBase) ==
    IF r.ok = 0
    THEN [cx EXCEPT !.state.bitstream = r.bs, !.state.ifstate = "ifstate_reading_tree_codes_after",
                    !.pc = "return", !.result = INFLATELIB_OK]
    ELSE IF cx.state.length_code = 16 /\ cx.state.loop_counter = 0
    THEN [cx EXCEPT !.state.bitstream = r.bs,
                    !.error_msg = StaticMsg("Code length repeat code encountered at beginning of data"),
                    !.pc = "return", !.result = INFLATELIB_ERROR_DATA]
    ELSE TreeCodesFill([cx EXCEPT !.state.bitstream = r.bs],
                       IF cx.state.length_code = 16 THEN cx.state.code_lengths[cx.state.loop_counter] ELSE 0,
                       r.result + repeatBase)

\* the repeat codes 16, 17 and 18, r being the repeat count read
TreeCodesRepeat(cx, r, repeatBase) ==
    LET codeArraySize == cx.state.literal_length_code_count + cx.state.distance_code_count
        loop_counter == cx.state.loop_counter
        data == r.result + repeatBase
    IN IF r.ok = 0
       THEN [cx EXCEPT !.state.bitstream = r.bs, !.state.ifstate = "ifstate_reading_tree_codes_after",
                       !.pc = "return", !.result = INFLATELIB_OK]
       ELSE IF cx.state.length_code = 16 /\ loop_counter = 0
       THEN [cx EXCEPT !.state.bitstream = r.bs,
                       !.error_msg = StaticMsg("Code length repeat code encountered at beginning of data"),
                       !.pc = "return", !.result = INFLATELIB_ERROR_DATA]
       ELSE IF loop_counter + data > codeArraySize
       THEN [ErrorMessage([cx EXCEPT !.state.bitstream = r.bs],
                          IF cx.state.length_code = 16
                          THEN <<"Code length repeat code specifies %u repetitions, but only %u codes remain",
                                 data, codeArraySize - loop_counter>>
                          ELSE <<"Zero repeat code specifies %u repetitions, but only %u codes remain",
                                 data, codeArraySize - loop_counter>>,
                          IF cx.state.length_code = 16
                          THEN "Code length repeat code specifies more repetitions than codes remain"
                          ELSE "Zero repeat code specifies more repetitions than codes remain")
             EXCEPT !.pc = "return", !.result = INFLATELIB_ERROR_DATA]
       ELSE TreeCodesFill([cx EXCEPT !.state.bitstream = r.bs],
                          IF cx.state.length_code = 16 THEN cx.state.code_lengths[loop_counter] ELSE 0,
                          data)

\* the body of `while (loop_counter < codeArraySize)` once length_code is known
TreeCodesDecode(cx) ==
    IF cx.state.length_code <= 15
    THEN [cx EXCEPT !.state.code_lengths[cx.state.loop_counter + 1] = cx.state.length_code,
                    !.state.loop_counter = @ + 1,
                    !.state.ifstate = "ifstate_reading_tree_codes_before"]
    ELSE IF cx.state.length_code = 16 THEN TreeCodesRepeat(cx, ReadBits(cx, 2), 3)
    ELSE IF cx.state.length_code = 17 THEN TreeCodesRepeat(cx, ReadBits(cx, 3), 3)
    ELSE TreeCodesRepeat(cx, ReadBits(cx, 7), 11)

\* the body of the loop after huffman_tree_lookup, whose outcome is a
TreeCodesLookedUp(a) ==
    IF a.r = 0 THEN [a.cx EXCEPT !.pc = "return", !.result = INFLATELIB_OK]
    ELSE IF a.r < 0 THEN [a.cx EXCEPT !.pc = "return", !.result = INFLATELIB_ERROR_DATA]
    ELSE TreeCodesDecode([a.cx EXCEPT !.state.length_code = a.symbol % 32])

\* the loop, were it to look a code up in either state
RECURSIVE TreeCodesLoop_looks_up_again(_)
TreeCodesLoop_looks_up_again(cx) ==
    IF cx.pc = "return"
       \/ ~(cx.state.loop_counter < cx.state.literal_length_code_count + cx.state.distance_code_count)
    THEN cx
    ELSE TreeCodesLoop_looks_up_again(TreeCodesLookedUp(huffman_tree_lookup(cx, "code_length_tree")))

\* the loop `while (loop_counter < codeArraySize)`
RECURSIVE TreeCodesLoop(_)
TreeCodesLoop(cx) ==
    IF cx.pc = "return"
       \/ ~(cx.state.loop_counter < cx.state.literal_length_code_count + cx.state.distance_code_count)
    THEN cx
    ELSE IF cx.state.ifstate = "ifstate_reading_tree_codes_before"
    THEN TreeCodesLoop(TreeCodesLookedUp(huffman_tree_lookup(cx, "code_length_tree")))
    ELSE TreeCodesLoop(TreeCodesDecode(cx))

\* the end of inflater_read_dynamic_header, after the second huffman_tree_reset
DistanceTreeBuilt(cx) ==
    IF cx.result < 0 THEN [cx EXCEPT !.pc = "return"]
    ELSE [cx EXCEPT !.result = INFLATELIB_OK, !.state.ifstate = "ifstate_reading_literal_length_code"]

\* after the first huffman_tree_reset
LiteralLengthTreeBuilt(cx) ==
    IF cx.result < 0 THEN [cx EXCEPT !.pc = "return"]
    ELSE DistanceTreeBuilt(
             TreeReset(cx, "distance_tree",
                       SubSeq(cx.state.code_lengths, cx.state.literal_length_code_count + 1,
                              Len(cx.state.code_lengths)),
                       cx.state.distance_code_count))

\* cases ifstate_reading_tree_codes_before / _after, after their loop
TreeCodesDone(cx) ==
    IF cx.pc = "return" THEN cx
    ELSE LiteralLengthTreeBuilt(TreeReset(cx, "literal_length_tree", cx.state.code_lengths,
                                          cx.state.literal_length_code_count))

TreeCodes(cx) == IF cx.pc = "return" THEN cx ELSE TreeCodesDone(TreeCodesLoop(cx))

inflater_read_dynamic_header(cx) ==
    TreeCodes(CodeLenCodes(NumCodeLenCodes(NumDistCodes(NumLitCodes(
        [cx EXCEPT !.pc = "run", !.result = INFLATELIB_OK])))))

\* {base, extra_bits} of the length symbols 257..285 and of the distance symbols 0..31
deflate_tables ==
    [lengths |-> << <<3, 0>>, <<4, 0>>, <<5, 0>>, <<6, 0>>, <<7, 0>>, <<8, 0>>, <<9, 0>>, <<10, 0>>,
                    <<11, 1>>, <<13, 1>>, <<15, 1>>, <<17, 1>>, <<19, 2>>, <<23, 2>>, <<27, 2>>,
                    <<31, 2>>, <<35, 3>>, <<43, 3>>, <<51, 3>>, <<59, 3>>, <<67, 4>>, <<83, 4>>,
                    <<99, 4>>, <<115, 4>>, <<131, 5>>, <<163, 5>>, <<195, 5>>, <<227, 5>>, <<258, 0>> >>,
     distances |-> << <<1, 0>>, <<2, 0>>, <<3, 0>>, <<4, 0>>, <<5, 1>>, <<7, 1>>, <<9, 2>>, <<13, 2>>,
                      <<17, 3>>, <<25, 3>>, <<33, 4>>, <<49, 4>>, <<65, 5>>, <<97, 5>>, <<129, 6>>,
                      <<193, 6>>, <<257, 7>>, <<385, 7>>, <<513, 8>>, <<769, 8>>, <<1025, 9>>,
                      <<1537, 9>>, <<2049, 10>>, <<3073, 10>>, <<4097, 11>>, <<6145, 11>>,
                      <<8193, 12>>, <<12289, 12>>, <<16385, 13>>, <<24577, 13>>, <<0, 0>>, <<0, 0>> >>]

deflate64_tables ==
    [lengths |-> [deflate_tables.lengths EXCEPT ![29] = <<3, 16>>],
     distances |-> [deflate_tables.distances EXCEPT ![31] = <<32769, 14>>, ![32] = <<49153, 14>>]]

\* indexed by mode + 1
inflate_tables == <<deflate_tables, deflate64_tables>>

max_compressed_op_size == <<6, 8>>

\* while ((state->bitstream.length >= maxOpSize) && outSize)
FastPathOpen(cx) ==
    cx.state.bitstream.length >= max_compressed_op_size[cx.state.mode + 1] /\ cx.avail_out > 0

\* base + bitstream_read_bits_unchecked(..., extra); r is what was read
ExtraBitsRead(cx, base, r) ==
    [cx |-> [cx EXCEPT !.state.bitstream = r.bs], value |-> base + r.result]

\* if (extraBits > 0) { value += bitstream_read_bits_unchecked(&state->bitstream, extraBits); }
ExtraBitsUnchecked(cx, entry) ==
    IF entry[2] > 0
    THEN ExtraBitsRead(cx, entry[1], bitstream_read_bits_unchecked(FillBuffer(cx), entry[2]))
    ELSE [cx |-> cx, value |-> entry[1]]

\* the end of the fast loop's body, after window_copy_output
FastCopiedOut(cx, blockLength, blockDistance, opResult) ==
    IF opResult < blockLength \/ cx.state.window.unconsumed_bytes # 0
    THEN [cx EXCEPT !.state.block_length = blockLength - opResult,
                    !.state.block_distance = blockDistance,
                    !.state.ifstate = "ifstate_copying_length_distance_from_window",
                    !.pc = "exit"]
    ELSE cx

\* after window_copy_length_distance, whose outcome is w
FastCopied(cx, blockLength, blockDistance, w) ==
    IF w.result < 0
    THEN [ErrorMessage(cx, <<"Compressed block has a distance '%u' which exceeds the size of the window (%llu bytes)",
                             blockDistance, cx.state.window.total_bytes>>,
                       "Compressed block has a distance which exceeds the size of the window")
          EXCEPT !.result = INFLATELIB_ERROR_DATA, !.pc = "exit"]
    ELSE FastCopiedOut(CopyOutput([cx EXCEPT !.state.window = w.w]), blockLength, blockDistance, w.result)

\* e holds the context and blockDistance
FastCopy(e, blockLength) ==
    FastCopied(e.cx, blockLength, e.value,
               window_copy_length_distance(e.cx.state.window, e.value, blockLength))

\* after the lookup in the distance tree, were a base of zero not looked for
FastDistanceSymbol_any_base(d, blockLength) ==
    IF d.r < 0 THEN [d.cx EXCEPT !.result = INFLATELIB_ERROR_DATA, !.pc = "exit"]
    ELSE FastCopy(ExtraBitsUnchecked(d.cx, inflate_tables[d.cx.state.mode + 1].distances[d.symbol + 1]),
                  blockLength)

\* after the lookup in the distance tree, whose outcome is d
FastDistanceSymbol(d, blockLength) ==
    IF d.r < 0 THEN [d.cx EXCEPT !.result = INFLATELIB_ERROR_DATA, !.pc = "exit"]
    ELSE IF inflate_tables[d.cx.state.mode + 1].distances[d.symbol + 1][1] = 0
    THEN [ErrorMessage(d.cx, <<"Distance code %u is not valid in Deflate", d.symbol>>,
                       "Distance code is not valid in Deflate")
          EXCEPT !.result = INFLATELIB_ERROR_DATA, !.pc = "exit"]
    ELSE FastCopy(ExtraBitsUnchecked(d.cx, inflate_tables[d.cx.state.mode + 1].distances[d.symbol + 1]),
                  blockLength)

\* e holds the context and blockLength
FastDistance(e) ==
    FastDistanceSymbol(huffman_tree_lookup_unchecked(e.cx, "distance_tree"), e.value)

\* the body of the fast loop after the lookup in the literal/length tree, whose
\* outcome is l
FastSymbol(l) ==
    IF l.r < 0 THEN [l.cx EXCEPT !.result = INFLATELIB_ERROR_DATA, !.pc = "exit"]
    ELSE IF l.symbol < 256
    THEN [l.cx EXCEPT !.state.window = window_write_byte_consume(@, l.symbol % 256),
                      !.output = Append(@, l.symbol % 256),
                      !.avail_out = @ - 1]
    ELSE IF l.symbol = 256
    THEN [l.cx EXCEPT !.state.ifstate = "ifstate_copying_output_from_window", !.pc = "exit"]
    ELSE IF l.symbol > 285
    THEN [ErrorMessage(l.cx, <<"Invalid symbol '%u' from literal/length tree", l.symbol>>,
                       "Invalid symbol from literal/length tree")
          EXCEPT !.result = INFLATELIB_ERROR_DATA, !.pc = "exit"]
    ELSE FastDistance(ExtraBitsUnchecked(l.cx, inflate_tables[l.cx.state.mode + 1].lengths[l.symbol - 256]))

\* the loop of inflater_read_compressed_fast
RECURSIVE ReadCompressedFastLoop(_)
ReadCompressedFastLoop(cx) ==
    IF cx.pc = "exit" \/ ~FastPathOpen(cx) THEN cx
    ELSE ReadCompressedFastLoop(FastSymbol(huffman_tree_lookup_unchecked(cx, "literal_length_tree")))

inflater_read_compressed_fast(cx) ==
    ReadCompressedFastLoop([cx EXCEPT !.pc = "loop", !.result = INFLATELIB_OK])

\* One iteration of `while (keepGoing)` in inflater_read_compressed enters the switch
\* at the case of ifstate and falls through from case to case: pc is the case that
\* control has reached, "break" once the switch has been left.

\* case ifstate_reading_literal_length_code after the fast path, whose outcome is f
LiteralLengthFast(f) ==
    [f EXCEPT !.pc = "break", !.keepGoing = IF f.result < INFLATELIB_OK THEN 0 ELSE @]

\* ... and after huffman_tree_lookup, whose outcome is l
LiteralLengthLookedUp(l) ==
    IF l.r = 0 THEN [l.cx EXCEPT !.keepGoing = 0, !.pc = "break"]
    ELSE IF l.r < 0
    THEN [l.cx EXCEPT !.keepGoing = 0, !.result = INFLATELIB_ERROR_DATA, !.pc = "break"]
    ELSE [l.cx EXCEPT !.state.symbol = l.symbol, !.pc = "ifstate_decoding_literal_length_code"]

ReadingLiteralLengthCode(cx) ==
    IF cx.pc # "ifstate_reading_literal_length_code" THEN cx
    ELSE IF FastPathOpen(cx) /\ cx.fast THEN LiteralLengthFast(inflater_read_compressed_fast(cx))
    ELSE LiteralLengthLookedUp(huffman_tree_lookup(cx, "literal_length_tree"))

\* the literal whose window_write_byte failed, after window_copy_output; c is the
\* context after the copy and bytesCopied what it copied
LiteralRetry(c, bytesCopied) ==
    IF bytesCopied = 0
    THEN [c EXCEPT !.keepGoing = 0, !.pc = "break",
                   !.state.ifstate = "ifstate_decoding_literal_length_code"]
    ELSE [c EXCEPT !.state.window = window_write_byte(@, c.state.symbol % 256).w,
                   !.pc = "break",
                   !.state.ifstate = "ifstate_reading_literal_length_code"]

\* the literal after window_write_byte, whose outcome is w
LiteralWritten(cx, w) ==
    IF w.ok = 1
    THEN [cx EXCEPT !.state.window = w.w, !.pc = "break",
                    !.state.ifstate = "ifstate_reading_literal_length_code"]
    ELSE LiteralRetry(CopyOutput(cx), Min(cx.avail_out, cx.state.window.unconsumed_bytes))

DecodingLiteralLengthCode(cx) ==
    IF cx.pc # "ifstate_decoding_literal_length_code" THEN cx
    ELSE IF cx.state.symbol < 256
    THEN LiteralWritten(cx, window_write_byte(cx.state.window, cx.state.symbol % 256))
    ELSE IF cx.state.symbol = 256
    THEN [cx EXCEPT !.state.ifstate = "ifstate_copying_output_from_window", !.pc = "break"]
    ELSE IF cx.state.symbol > 285
    THEN [ErrorMessage(cx, <<"Invalid symbol '%u' from literal/length tree", cx.state.symbol>>,
                       "Invalid symbol from literal/length tree")
          EXCEPT !.keepGoing = 0, !.result = INFLATELIB_ERROR_DATA, !.pc = "break"]
    ELSE [cx EXCEPT !.state.block_length =
                        inflate_tables[cx.state.mode + 1].lengths[cx.state.symbol - 256][1],
                    !.state.extra_bits =
                        inflate_tables[cx.state.mode + 1].lengths[cx.state.symbol - 256][2],
                    !.pc = "ifstate_reading_length_extra_bits"]

\* case ifstate_reading_length_extra_bits, r being what was read
LengthExtraBitsRead(cx, r) ==
    IF r.ok = 0
    THEN [cx EXCEPT !.state.bitstream = r.bs, !.keepGoing = 0, !.pc = "break",
                    !.state.ifstate = "ifstate_reading_length_extra_bits"]
    ELSE [cx EXCEPT !.state.bitstream = r.bs, !.state.block_length = @ + r.result,
                    !.pc = "ifstate_reading_distance_code"]

ReadingLengthExtraBits(cx) ==
    IF cx.pc # "ifstate_reading_length_extra_bits" THEN cx
    ELSE IF cx.state.extra_bits > 0 THEN LengthExtraBitsRead(cx, ReadBits(cx, cx.state.extra_bits))
    ELSE [cx EXCEPT !.pc = "ifstate_reading_distance_code"]

\* case ifstate_reading_distance_code, were a base of zero not looked for
DistanceLookedUp_any_base(l) ==
    IF l.r = 0
    THEN [l.cx EXCEPT !.keepGoing = 0, !.pc = "break",
                      !.state.ifstate = "ifstate_reading_distance_code"]
    ELSE IF l.r < 0
    THEN [l.cx EXCEPT !.keepGoing = 0, !.result = INFLATELIB_ERROR_DATA, !.pc = "break"]
    ELSE [l.cx EXCEPT !.state.block_distance =
                          inflate_tables[l.cx.state.mode + 1].distances[l.symbol + 1][1],
                      !.state.extra_bits =
                          inflate_tables[l.cx.state.mode + 1].distances[l.symbol + 1][2],
                      !.pc = "ifstate_reading_distance_extra_bits"]

\* case ifstate_reading_distance_code after huffman_tree_lookup, whose outcome is l
DistanceLookedUp(l) ==
    IF l.r = 0
    THEN [l.cx EXCEPT !.keepGoing = 0, !.pc = "break",
                      !.state.ifstate = "ifstate_reading_distance_code"]
    ELSE IF l.r < 0
    THEN [l.cx EXCEPT !.keepGoing = 0, !.result = INFLATELIB_ERROR_DATA, !.pc = "break"]
    ELSE IF inflate_tables[l.cx.state.mode + 1].distances[l.symbol + 1][1] = 0
    THEN [ErrorMessage([l.cx EXCEPT !.state.block_distance = 0,
                                    !.state.extra_bits =
                                        inflate_tables[l.cx.state.mode + 1].distances[l.symbol + 1][2]],
                       <<"Distance code %u is not valid in Deflate", l.symbol>>,
                       "Distance code is not valid in Deflate")
          EXCEPT !.keepGoing = 0, !.result = INFLATELIB_ERROR_DATA, !.pc = "break"]
    ELSE [l.cx EXCEPT !.state.block_distance =
                          inflate_tables[l.cx.state.mode + 1].distances[l.symbol + 1][1],
                      !.state.extra_bits =
                          inflate_tables[l.cx.state.mode + 1].distances[l.symbol + 1][2],
                      !.pc = "ifstate_reading_distance_extra_bits"]

ReadingDistanceCode(cx) ==
    IF cx.pc # "ifstate_reading_distance_code" THEN cx
    ELSE DistanceLookedUp(huffman_tree_lookup(cx, "distance_tree"))

\* case ifstate_reading_distance_extra_bits, r being what was read
DistanceExtraBitsRead(cx, r) ==
    IF r.ok = 0
    THEN [cx EXCEPT !.state.bitstream = r.bs, !.keepGoing = 0, !.pc = "break",
                    !.state.ifstate = "ifstate_reading_distance_extra_bits"]
    ELSE [cx EXCEPT !.state.bitstream = r.bs, !.state.block_distance = @ + r.result,
                    !.pc = "ifstate_copying_length_distance_from_window"]

ReadingDistanceExtraBits(cx) ==
    IF cx.pc # "ifstate_reading_distance_extra_bits" THEN cx
    ELSE IF cx.state.extra_bits > 0 THEN DistanceExtraBitsRead(cx, ReadBits(cx, cx.state.extra_bits))
    ELSE [cx EXCEPT !.pc = "ifstate_copying_length_distance_from_window"]

\* case ifstate_copying_length_distance_from_window after window_copy_output;
\* opResult is what window_copy_length_distance returned
LengthDistanceCopiedOut(cx, opResult) ==
    IF cx.state.block_length = 0 /\ cx.state.window.unconsumed_bytes = 0
    THEN [cx EXCEPT !.state.ifstate = "ifstate_reading_literal_length_code", !.pc = "break"]
    ELSE [cx EXCEPT !.state.ifstate = "ifstate_copying_length_distance_from_window",
                    !.pc = "break",
                    !.keepGoing = IF (cx.state.block_length = 0 \/ opResult = 0) /\ cx.avail_out = 0
                                  THEN 0 ELSE @]

\* ... after window_copy_length_distance, whose outcome is w
LengthDistanceCopied(cx, w) ==
    IF w.result < 0
    THEN [ErrorMessage(cx, <<"Compressed block has a distance '%u' which exceeds the size of the window (%llu bytes)",
                             cx.state.block_distance, cx.state.window.total_bytes>>,
                       "Compressed block has a distance which exceeds the size of the window")
          EXCEPT !.keepGoing = 0, !.result = INFLATELIB_ERROR_DATA, !.pc = "break"]
    ELSE LengthDistanceCopiedOut(
             CopyOutput([cx EXCEPT !.state.window = w.w, !.state.block_length = @ - w.result]),
             w.result)

CopyingLengthDistanceFromWindow(cx) ==
    IF cx.pc # "ifstate_copying_length_distance_from_window" THEN cx
    ELSE LengthDistanceCopied(cx, window_copy_length_distance(cx.state.window, cx.state.block_distance,
                                                              cx.state.block_length))

\* OutputCopied, were the end of the block never to be noticed
OutputCopied_never_done(cx) == [cx EXCEPT !.keepGoing = 0, !.pc = "break"]

\* case ifstate_copying_output_from_window after window_copy_output
OutputCopied(cx) ==
    IF cx.state.window.unconsumed_bytes = 0
    THEN [BlockDone(cx) EXCEPT !.keepGoing = 0, !.pc = "break"]
    ELSE [cx EXCEPT !.keepGoing = 0, !.pc = "break"]

CopyingOutputFromWindow(cx) ==
    IF cx.pc # "ifstate_copying_output_from_window" THEN cx ELSE OutputCopied(CopyOutput(cx))

\* one iteration of `while (keepGoing)`, were the first one to do nothing
ReadCompressedStep_idles(cx) ==
    IF cx.keepGoing = 1 THEN [cx EXCEPT !.keepGoing = 2]
    ELSE CopyingOutputFromWindow(CopyingLengthDistanceFromWindow(ReadingDistanceExtraBits(
             ReadingDistanceCode(ReadingLengthExtraBits(DecodingLiteralLengthCode(
                 ReadingLiteralLengthCode([cx EXCEPT !.pc = cx.state.ifstate])))))))

\* one iteration of `while (keepGoing)`
ReadCompressedStep(cx) ==
    CopyingOutputFromWindow(CopyingLengthDistanceFromWindow(ReadingDistanceExtraBits(
        ReadingDistanceCode(ReadingLengthExtraBits(DecodingLiteralLengthCode(
            ReadingLiteralLengthCode([cx EXCEPT !.pc = cx.state.ifstate])))))))

RECURSIVE ReadCompressedLoop(_)
ReadCompressedLoop(cx) ==
    IF cx.keepGoing = 0 THEN cx ELSE ReadCompressedLoop(ReadCompressedStep(cx))

inflater_read_compressed(cx) ==
    CopyOutput(ReadCompressedLoop(CopyOutput([cx EXCEPT !.result = INFLATELIB_OK, !.keepGoing = 1])))

\* case ifstate_reading_bfinal, r being what was read
BfinalRead(cx, r) ==
    IF r.ok = 0 THEN [cx EXCEPT !.state.bitstream = r.bs, !.ret = TRUE, !.result = INFLATELIB_OK]
    ELSE [cx EXCEPT !.state.bitstream = r.bs, !.state.bfinal = 0 - r.result,
                    !.state.ifstate = "ifstate_reading_btype"]

\* case ifstate_reading_btype, were a stored block entered without bitstream_byte_align
BtypeRead_unaligned(cx, r) ==
    IF r.ok = 0 THEN [cx EXCEPT !.state.bitstream = r.bs, !.ret = TRUE, !.result = INFLATELIB_OK]
    ELSE IF r.result > 2
    THEN [ErrorMessage([cx EXCEPT !.state.bitstream = r.bs],
                       <<"Unexpected block type '%u'", r.result>>, "Unexpected block type")
          EXCEPT !.ret = TRUE, !.result = INFLATELIB_ERROR_DATA]
    ELSE IF r.result = 0
    THEN [cx EXCEPT !.state.btype = 0,
                    !.state.bitstream = r.bs,
                    !.state.ifstate = "ifstate_reading_uncompressed_block_len"]
    ELSE IF r.result = 1
    THEN [inflater_init_static_tables([cx EXCEPT !.state.bitstream = r.bs, !.state.btype = 1])
          EXCEPT !.state.ifstate = "ifstate_reading_literal_length_code"]
    ELSE [cx EXCEPT !.state.bitstream = r.bs, !.state.btype = 2,
                    !.state.ifstate = "ifstate_reading_num_lit_codes"]

\* case ifstate_reading_btype, r being what was read
BtypeRead(cx, r) ==
    IF r.ok = 0 THEN [cx EXCEPT !.state.bitstream = r.bs, !.ret = TRUE, !.result = INFLATELIB_OK]
    ELSE IF r.result > 2
    THEN [ErrorMessage([cx EXCEPT !.state.bitstream = r.bs],
                       <<"Unexpected block type '%u'", r.result>>, "Unexpected block type")
          EXCEPT !.ret = TRUE, !.result = INFLATELIB_ERROR_DATA]
    ELSE IF r.result = 0
    THEN [cx EXCEPT !.state.btype = 0,
                    !.state.bitstream = bitstream_byte_align(r.bs),
                    !.state.ifstate = "ifstate_reading_uncompressed_block_len"]
    ELSE IF r.result = 1
    THEN [inflater_init_static_tables([cx EXCEPT !.state.bitstream = r.bs, !.state.btype = 1])
          EXCEPT !.state.ifstate = "ifstate_reading_literal_length_code"]
    ELSE [cx EXCEPT !.state.bitstream = r.bs, !.state.btype = 2,
                    !.state.ifstate = "ifstate_reading_num_lit_codes"]

\* BlockHeaderType, were case ifstate_eof to return INFLATELIB_OK
BlockHeaderType_eof_returns_ok(cx) ==
    IF cx.ret THEN cx
    ELSE IF cx.state.ifstate = "ifstate_reading_btype" THEN BtypeRead(cx, ReadBits(cx, 2))
    ELSE IF cx.state.ifstate = "ifstate_eof" THEN [cx EXCEPT !.ret = TRUE, !.result = INFLATELIB_OK]
    ELSE cx

\* the first switch of the loop body, entered at case ifstate_reading_btype or later
BlockHeaderType(cx) ==
    IF cx.ret THEN cx
    ELSE IF cx.state.ifstate = "ifstate_reading_btype" THEN BtypeRead(cx, ReadBits(cx, 2))
    ELSE IF cx.state.ifstate = "ifstate_eof" THEN [cx EXCEPT !.ret = TRUE, !.result = INFLATELIB_EOF]
    ELSE cx

\* the first switch of the loop body, entered at case ifstate_reading_bfinal or later
BlockHeaderFinal(cx) ==
    IF cx.state.ifstate = "ifstate_reading_bfinal" THEN BfinalRead(cx, ReadBits(cx, 1)) ELSE cx

\* the first switch of the loop body
BlockHeader(cx) == BlockHeaderType(BlockHeaderFinal(cx))

\* case btype_dynamic after inflater_read_dynamic_header, whose outcome is h
DynamicHeaderRead(h) ==
    IF h.result < 0 THEN [h EXCEPT !.ret = TRUE]
    ELSE IF IfstateValue(h.state.ifstate) < IfstateValue("ifstate_reading_literal_length_code")
    THEN [h EXCEPT !.ret = TRUE, !.result = INFLATELIB_OK]
    ELSE h

\* case btype_static, reached from the label or by falling through
BlockCompressed(cx) == IF cx.ret THEN cx ELSE inflater_read_compressed(cx)

\* case btype_dynamic (and default), up to where it falls through
BlockDynamic(cx) ==
    IF cx.state.btype # 1
       /\ IfstateValue(cx.state.ifstate) < IfstateValue("ifstate_reading_literal_length_code")
    THEN DynamicHeaderRead(inflater_read_dynamic_header(cx))
    ELSE cx

\* the second switch of the loop body
BlockBody(cx) ==
    IF cx.ret THEN cx
    ELSE IF cx.state.btype = 0 THEN inflater_read_uncompressed(cx)
    ELSE BlockCompressed(BlockDynamic(cx))

\* BlockEnd, were the do/while to leave after its first iteration
BlockEnd_single_block(cx) ==
    IF cx.ret THEN cx
    ELSE [cx EXCEPT !.ret = TRUE,
                    !.result = IF cx.result = INFLATELIB_OK /\ cx.state.ifstate = "ifstate_eof"
                               THEN INFLATELIB_EOF ELSE @]

\* the loop condition and the code after the loop
BlockEnd(cx) ==
    IF cx.ret THEN cx
    ELSE IF cx.result = INFLATELIB_OK /\ cx.state.ifstate = "ifstate_reading_bfinal" THEN cx
    ELSE [cx EXCEPT !.ret = TRUE,
                    !.result = IF cx.result = INFLATELIB_OK /\ cx.state.ifstate = "ifstate_eof"
                               THEN INFLATELIB_EOF ELSE @]

\* one iteration of the do/while of inflater_process_data
ProcessDataStep(cx) == BlockEnd(BlockBody(BlockHeader(cx)))

RECURSIVE ProcessDataLoop(_)
ProcessDataLoop(cx) == IF cx.ret THEN cx ELSE ProcessDataLoop(ProcessDataStep(cx))

inflater_process_data(cx) == ProcessDataLoop([cx EXCEPT !.ret = FALSE])

(***************************************************************************)
(* The public entry points.  A world w is the caller's stream object       *)
(* (`stream`), the contents of the block stream->internal (`state`) and    *)
(* the heap.  Each entry point returns the world after the call, the       *)
(* return code and, for the decoding calls, the bytes written at next_out. *)
(* next_in and next_out are offsets into the caller's input and output     *)
(* memory.                                                                 *)
(***************************************************************************)
NullMsg == [ptr |-> 0, text |-> <<>>]

NullStateMsg == StaticMsg("Internal state is null; ensure inflatelib_init has been called first")

\* inflatelib_destroy, were it to clear error_msg whenever it frees the state
inflatelib_destroy_clears_msg(w) ==
    IF w.stream.internal = 0 THEN [w |-> w, result |-> INFLATELIB_OK]
    ELSE LET fmt == w.state.error_msg_fmt
             heap1 == IF fmt # 0 THEN HeapFree(w.heap, fmt) ELSE w.heap
         IN [w |-> [w EXCEPT !.stream.error_msg = NullMsg, !.stream.internal = 0,
                             !.heap = HeapFree(heap1, w.stream.internal)],
             result |-> INFLATELIB_OK]

\* inflatelib_destroy, were it to leave error_msg as it is
inflatelib_destroy_keeps_msg(w) ==
    IF w.stream.internal = 0 THEN [w |-> w, result |-> INFLATELIB_OK]
    ELSE LET fmt == w.state.error_msg_fmt
             heap1 == IF fmt # 0 THEN HeapFree(w.heap, fmt) ELSE w.heap
         IN [w |-> [w EXCEPT !.stream.internal = 0,
                             !.heap = HeapFree(heap1, w.stream.internal)],
             result |-> INFLATELIB_OK]

inflatelib_destroy(w) ==
    IF w.stream.internal = 0 THEN [w |-> w, result |-> INFLATELIB_OK]
    ELSE LET fmt == w.state.error_msg_fmt
             msg1 == IF fmt # 0 /\ w.stream.error_msg.ptr = fmt
                     THEN StaticMsg("Generic failure") ELSE w.stream.error_msg
             heap1 == IF fmt # 0 THEN HeapFree(w.heap, fmt) ELSE w.heap
         IN [w |-> [w EXCEPT !.stream.error_msg = msg1, !.stream.internal = 0,
                             !.heap = HeapFree(heap1, w.stream.internal)],
             result |-> INFLATELIB_OK]

\* failAt = k > 0: the k-th allocation of the call returns NULL
inflatelib_init(w, failAt) ==
    LET a0 == HeapAlloc(w.heap)
        a1 == HeapAlloc(a0.heap)
        a2 == HeapAlloc(a1.heap)
        a3 == HeapAlloc(a2.heap)
        treeMsg == StaticMsg("Failed to allocate space for Huffman table")
        t1 == huffman_tree_init(CODE_LENGTH_TREE_ELEMENT_COUNT, IF failAt = 2 THEN 0 ELSE a1.ptr)
        t2 == huffman_tree_init(LITERAL_TREE_MAX_ELEMENT_COUNT, IF failAt = 3 THEN 0 ELSE a2.ptr)
        t3 == huffman_tree_init(DIST_TREE_MAX_ELEMENT_COUNT, IF failAt = 4 THEN 0 ELSE a3.ptr)
        s0 == [w.stream EXCEPT !.error_msg = NullMsg, !.internal = a0.ptr]
    IN IF failAt = 1
       THEN [w |-> [w EXCEPT !.stream.error_msg = StaticMsg("Failed to allocate storage for internal state")],
             result |-> INFLATELIB_ERROR_OOM]
       ELSE IF failAt = 2
       THEN [w |-> inflatelib_destroy([stream |-> [s0 EXCEPT !.error_msg = treeMsg],
                                       state |-> [inflatelib_state EXCEPT !.code_length_tree = t1],
                                       heap |-> a0.heap]).w,
             result |-> INFLATELIB_ERROR_OOM]
       ELSE IF failAt = 3
       THEN [w |-> inflatelib_destroy([stream |-> [s0 EXCEPT !.error_msg = treeMsg],
                                       state |-> [inflatelib_state EXCEPT !.code_length_tree = t1,
                                                                          !.literal_length_tree = t2],
                                       heap |-> a1.heap]).w,
             result |-> INFLATELIB_ERROR_OOM]
       ELSE IF failAt = 4
       THEN [w |-> inflatelib_destroy([stream |-> [s0 EXCEPT !.error_msg = treeMsg],
                                       state |-> [inflatelib_state EXCEPT !.code_length_tree = t1,
                                                                          !.literal_length_tree = t2,
                                                                          !.distance_tree = t3],
                                       heap |-> a2.heap]).w,
             result |-> INFLATELIB_ERROR_OOM]
       ELSE [w |-> [stream |-> s0,
                    state |-> [inflatelib_state EXCEPT !.code_length_tree = t1,
                                                       !.literal_length_tree = t2,
                                                       !.distance_tree = t3,
                                                       !.bitstream = bitstream_reset,
                                                       !.window = window_reset(@),
                                                       !.ifstate = ifstate_init],
                    heap |-> a3.heap],
             result |-> INFLATELIB_OK]

\* inflatelib_reset without window_reset
inflatelib_reset_keeps_window(w) ==
    IF w.stream.internal = 0
    THEN [w |-> [w EXCEPT !.stream.error_msg = NullStateMsg], result |-> INFLATELIB_ERROR_ARG]
    ELSE [w |-> [w EXCEPT !.state.bitstream = bitstream_reset,
                          !.state.ifstate = ifstate_init],
          result |-> INFLATELIB_OK]

\* inflatelib_reset without state->ifstate = ifstate_init
inflatelib_reset_keeps_ifstate(w) ==
    IF w.stream.internal = 0
    THEN [w |-> [w EXCEPT !.stream.error_msg = NullStateMsg], result |-> INFLATELIB_ERROR_ARG]
    ELSE [w |-> [w EXCEPT !.state.bitstream = bitstream_reset,
                          !.state.window = window_reset(@)],
          result |-> INFLATELIB_OK]

\* inflatelib_reset, were it to start the counts of the stream anew
inflatelib_reset_zeroes_totals(w) ==
    IF w.stream.internal = 0
    THEN [w |-> [w EXCEPT !.stream.error_msg = NullStateMsg], result |-> INFLATELIB_ERROR_ARG]
    ELSE [w |-> [w EXCEPT !.state.bitstream = bitstream_reset,
                          !.state.window = window_reset(@),
                          !.state.ifstate = ifstate_init,
                          !.stream.total_in = 0,
                          !.stream.total_out = 0],
          result |-> INFLATELIB_OK]

\* inflatelib_reset, were stream->internal not compared with NULL
inflatelib_reset_unchecked(w) ==
    [w |-> [w EXCEPT !.state.bitstream = bitstream_reset,
                     !.state.window = window_reset(@),
                     !.state.ifstate = ifstate_init],
     result |-> INFLATELIB_OK]

inflatelib_reset(w) ==
    IF w.stream.internal = 0
    THEN [w |-> [w EXCEPT !.stream.error_msg = NullStateMsg], result |-> INFLATELIB_ERROR_ARG]
    ELSE [w |-> [w EXCEPT !.state.bitstream = bitstream_reset,
                          !.state.window = window_reset(@),
                          !.state.ifstate = ifstate_init],
          result |-> INFLATELIB_OK]

\* InflateDone, were total_in to grow by all that was offered
InflateDone_counts_offered(w, cx) ==
    [w |-> [stream |-> [w.stream EXCEPT
                          !.total_out = @ + (w.stream.avail_out - cx.avail_out),
                          !.total_in = @ + w.stream.avail_in,
                          !.next_in = cx.state.bitstream.data,
                          !.avail_in = cx.state.bitstream.length,
                          !.next_out = @ + Len(cx.output),
                          !.avail_out = cx.avail_out,
                          !.error_msg = cx.error_msg],
            state |-> [cx.state EXCEPT !.bitstream.length = 0],
            heap |-> cx.heap],
     result |-> cx.result, output |-> cx.output]

\* do_inflate after inflater_process_data, whose outcome is cx
InflateDone(w, cx) ==
    [w |-> [stream |-> [w.stream EXCEPT
                          !.total_out = @ + (w.stream.avail_out - cx.avail_out),
                          !.total_in = @ + (w.stream.avail_in - cx.state.bitstream.length),
                          !.next_in = cx.state.bitstream.data,
                          !.avail_in = cx.state.bitstream.length,
                          !.next_out = @ + Len(cx.output),
                          !.avail_out = cx.avail_out,
                          !.error_msg = cx.error_msg],
            state |-> [cx.state EXCEPT !.bitstream.length = 0],
            heap |-> cx.heap],
     result |-> cx.result, output |-> cx.output]

\* the locals of do_inflate and of the functions under it as the call begins;
\* `fast` is not of the code: it is TRUE in every call the library makes, and
\* FALSE closes the fast path, for the decoder to be compared with itself
InflateLocals(w, mem, oom, fast) ==
    [state |-> [w.state EXCEPT !.bitstream =
                    bitstream_set_data(@, w.stream.next_in, w.stream.avail_in)],
     avail_out |-> w.stream.avail_out, output |-> <<>>,
     error_msg |-> w.stream.error_msg, heap |-> w.heap, mem |-> mem, oom |-> oom,
     result |-> INFLATELIB_OK, keepGoing |-> 0, pc |-> "run", ret |-> FALSE, fast |-> fast]

do_inflate(w, mem, oom) ==
    InflateDone(w, inflater_process_data(InflateLocals(w, mem, oom, TRUE)))

\* do_inflate, were inflater_read_compressed never to take the fast path
do_inflate_slow(w, mem, oom) ==
    InflateDone(w, inflater_process_data(InflateLocals(w, mem, oom, FALSE)))

\* inflatelib_inflate and inflatelib_inflate64, were the mode stored ahead of
\* the comparison
Inflate_rebinds(w, mode, mem, oom) ==
    IF w.stream.internal = 0
    THEN [w |-> [w EXCEPT !.stream.error_msg = NullStateMsg],
          result |-> INFLATELIB_ERROR_ARG, output |-> <<>>]
    ELSE IF w.state.ifstate # ifstate_init /\ w.state.mode # mode
    THEN [w |-> [w EXCEPT !.state.mode = mode,
                          !.stream.error_msg = StaticMsg("inflatelib_stream is initialized for another encoding. First call inflatelib_reset to reset the stream")],
          result |-> INFLATELIB_ERROR_ARG, output |-> <<>>]
    ELSE do_inflate(IF w.state.ifstate = ifstate_init
                    THEN [w EXCEPT !.state.mode = mode, !.state.ifstate = "ifstate_reading_bfinal"]
                    ELSE w,
                    mem, oom)

\* inflatelib_inflate (mode = INFLATELIB_MODE_DEFLATE) and inflatelib_inflate64
\* (mode = INFLATELIB_MODE_DEFLATE64), which differ in the mode only
Inflate(w, mode, mem, oom) ==
    IF w.stream.internal = 0
    THEN [w |-> [w EXCEPT !.stream.error_msg = NullStateMsg],
          result |-> INFLATELIB_ERROR_ARG, output |-> <<>>]
    ELSE IF w.state.ifstate # ifstate_init /\ w.state.mode # mode
    THEN [w |-> [w EXCEPT !.stream.error_msg =
                    IF mode = INFLATELIB_MODE_DEFLATE
                    THEN StaticMsg("inflatelib_stream is initialized for Deflate64 and cannot be called with Deflate encoded data. First call inflatelib_reset to reset the stream")
                    ELSE StaticMsg("inflatelib_stream is initialized for Deflate and cannot be called with Deflate64 encoded data. First call inflatelib_reset to reset the stream")],
          result |-> INFLATELIB_ERROR_ARG, output |-> <<>>]
    ELSE do_inflate(IF w.state.ifstate = ifstate_init
                    THEN [w EXCEPT !.state.mode = mode, !.state.ifstate = "ifstate_reading_bfinal"]
                    ELSE w,
                    mem, oom)

\* Inflate, were inflater_read_compressed never to take the fast path
SlowInflate(w, mode, mem, oom) ==
    IF w.stream.internal = 0 \/ (w.state.ifstate # ifstate_init /\ w.state.mode # mode)
    THEN Inflate(w, mode, mem, oom)
    ELSE do_inflate_slow(IF w.state.ifstate = ifstate_init
                         THEN [w EXCEPT !.state.mode = mode, !.state.ifstate = "ifstate_reading_bfinal"]
                         ELSE w,
                         mem, oom)

inflatelib_inflate(w, mem, oom) == Inflate(w, INFLATELIB_MODE_DEFLATE, mem, oom)

inflatelib_inflate64(w, mem, oom) == Inflate(w, INFLATELIB_MODE_DEFLATE64, mem, oom)

\* a stream object the caller has zero-initialised, and an empty heap
ZeroWorld ==
    [stream |-> [next_in |-> 0, avail_in |-> 0, total_in |-> 0, next_out |-> 0, avail_out |-> 0,
                 total_out |-> 0, error_msg |-> NullMsg, internal |-> 0],
     state |-> inflatelib_state,
     heap |-> [live |-> {}, double_free |-> FALSE]]

(***************************************************************************)
(* The caller.  Corpus is the set of compressed inputs a caller may hand   *)
(* to the library: `data` are the bytes, `plain` the byte string the       *)
(* stream encodes and `complete` the modes in which `data` is exactly one  *)
(* complete valid stream for `plain`.  The other entries are malformed,    *)
(* truncated or followed by a trailing byte.                               *)
(***************************************************************************)
Corpus ==
    << \* 1: one stored block, "Hi"
       [data |-> <<1, 2, 0, 253, 255, 72, 105>>, plain |-> <<72, 105>>, complete |-> {0, 1}],
       \* 2: one fixed-Huffman block: 'a', match(3, 1)
       [data |-> <<75, 4, 2, 0>>, plain |-> <<97, 97, 97, 97>>, complete |-> {0, 1}],
       \* 3: stored "ab" (not final), then fixed: match(3, 2), 'c'
       [data |-> <<0, 2, 0, 253, 255, 97, 98, 3, 194, 100, 0>>,
        plain |-> <<97, 98, 97, 98, 97, 99>>, complete |-> {0, 1}],
       \* 4: one dynamic-Huffman block: 'a', match(3, 1), 'a'
       [data |-> <<13, 192, 129, 0, 0, 0, 0, 128, 32, 214, 252, 37, 62, 19>>,
        plain |-> <<97, 97, 97, 97, 97>>, complete |-> {0, 1}],
       \* 5: fixed block whose symbol 285 carries 16 extra bits: Deflate64 only
       [data |-> <<75, 28, 13, 0, 0, 0>>, plain |-> <<97, 97, 97, 97, 97>>, complete |-> {1}],
       \* 6: block type 3
       [data |-> <<7>>, plain |-> <<>>, complete |-> {}],
       \* 7: stored block whose NLEN is not the complement of LEN, and two bytes after it
       [data |-> <<1, 2, 0, 0, 0, 72, 105>>, plain |-> <<>>, complete |-> {}],
       \* 8: fixed block: 'a', then a match at distance 2
       [data |-> <<75, 4, 66, 0>>, plain |-> <<>>, complete |-> {}],
       \* 9: stream 2 without its last byte
       [data |-> <<75, 4, 2>>, plain |-> <<>>, complete |-> {}],
       \* 10: an empty stored block followed by one byte that is not part of the stream
       [data |-> <<1, 0, 0, 255, 255, 170>>, plain |-> <<>>, complete |-> {}],
       \* 11: fixed: 'a', match(3, 1); an empty stored block; stored "bc" (final)
       [data |-> <<74, 4, 2, 0, 0, 0, 0, 255, 255, 1, 2, 0, 253, 255, 98, 99>>,
        plain |-> <<97, 97, 97, 97, 98, 99>>, complete |-> {0, 1}],
       \* 12..15: dynamic blocks of 257 + 1 code lengths, whose code length code gives
       \* the symbols 0, 16, 17 and 18 two bits each
       \* 12: the first code length symbol is 16
       [data |-> <<5, 0, 36, 73, 0>>, plain |-> <<>>, complete |-> {}],
       \* 13: 18 x 138, then 18 x 138
       [data |-> <<5, 0, 36, 233, 255, 127>>, plain |-> <<>>, complete |-> {}],
       \* 14: 18 x 138, 18 x 117, 8, then 16 x 3
       [data |-> <<5, 32, 36, 109, 253, 83, 31, 0>>, plain |-> <<>>, complete |-> {}],
       \* 15: 18 x 138, 18 x 115, then 17 x 6
       [data |-> <<5, 0, 36, 233, 255, 232, 6>>, plain |-> <<>>, complete |-> {}],
       \* 16: fixed block: 'a', then length symbol 257 with distance symbol 30, whose
       \* 14 extra bits would be 0x2AAA and are followed by one-bits
       [data |-> <<75, 4, 62, 85, 245, 255, 255, 255, 255, 255, 255, 255, 255, 255, 255, 255, 255, 255, 255, 255>>,
        plain |-> <<>>, complete |-> {}],
       \* 17: fixed block: 'a', then length symbol 257 with distance symbol 31
       [data |-> <<75, 4, 126, 85, 245, 255, 255, 255, 255, 255, 255, 255, 255, 255, 255, 255, 255, 255, 255, 255>>,
        plain |-> <<>>, complete |-> {}] >>

MaxInChunk == 1
MaxOutChunk == 1
MaxOutput == 8
MaxResets == 1

VARIABLES w, input, out, call, hist, shadow

vars == <<w, input, out, call, hist, shadow>>

\* the caller's input memory
mem == Corpus[input].data

\* the last call: the entry point, its return code, the avail_in and avail_out
\* the caller had set for it, and whether total_in or total_out has grown
NoCall == [op |-> "none", rc |-> INFLATELIB_OK, avail_in |-> 0, avail_out |-> 0, progress |-> FALSE]

\* what the caller has seen since the last reset: EOF returned, the mode of
\* the first decoding call, a data error returned; and the resets so far and
\* whether the stream object is zeroed, live, failed to initialise or destroyed
\* no second stream is being compared with this one
NoTwin == [on |-> FALSE]

FreshHist == [eof |-> FALSE, bound |-> -1, dead |-> FALSE, resets |-> 0, life |-> "live"]

Init ==
    /\ w = inflatelib_init(ZeroWorld, 0).w
    /\ input \in 1..Len(Corpus)
    /\ out = <<>>
    /\ call = NoCall
    /\ hist = FreshHist
    /\ shadow = NoTwin

\* the input that is left
Rest == Len(mem) - w.stream.next_in

\* the sizes a caller may offer: small strides of at least one byte, or
\* everything that is left of the input and an output buffer that holds any
\* result; a stream that has been reset or destroyed is offered the latter only
InSizes ==
    IF hist.resets > 0 \/ hist.life = "destroyed" THEN {Rest}
    ELSE {n \in 1..MaxInChunk : n <= Rest} \cup {Rest}

OutSizes ==
    IF hist.resets > 0 \/ hist.life = "destroyed" THEN {MaxOutput}
    ELSE (1..MaxOutChunk) \cup {MaxOutput}

\* format_error_message allocates, and only a malformed stream makes the call reach it
OomOutcomes == IF Corpus[input].complete = {} THEN BOOLEAN ELSE {FALSE}

OpName(mode) == IF mode = INFLATELIB_MODE_DEFLATE THEN "inflate" ELSE "inflate64"

\* the caller sets avail_in and avail_out and calls inflatelib_inflate (mode 0)
\* or inflatelib_inflate64 (mode 1); `twin` is the same call on the shadow stream
Called(mode, n_in, n_out, oom, r, twin) ==
    /\ w' = r.w
    /\ out' = out \o r.output
    /\ call' = [op |-> OpName(mode), rc |-> r.result, avail_in |-> n_in, avail_out |-> n_out,
                progress |-> r.w.stream.total_in > w.stream.total_in
                             \/ r.w.stream.total_out > w.stream.total_out]
    /\ hist' = [hist EXCEPT !.eof = @ \/ r.result = INFLATELIB_EOF,
                            !.bound = IF @ = -1 /\ w.stream.internal # 0 THEN mode ELSE @,
                            !.dead = r.result \in {INFLATELIB_ERROR_DATA, INFLATELIB_ERROR_OOM}]
    /\ shadow' = twin
    /\ UNCHANGED input

Offer(world, n_in, n_out) == [world EXCEPT !.stream.avail_in = n_in, !.stream.avail_out = n_out]

TwinCall(mode, n_in, n_out, oom) ==
    IF ~shadow.on THEN shadow
    ELSE LET t == Inflate(Offer(shadow.w, n_in, n_out), mode, mem, oom)
         IN [on |-> TRUE, w |-> t.w, out |-> shadow.out \o t.output, rc |-> t.result]

Decode(mode, n_in, n_out, oom) ==
    /\ ~hist.dead
    /\ \E r \in {Inflate(Offer(w, n_in, n_out), mode, mem, oom)} :
       \E twin \in {TwinCall(mode, n_in, n_out, oom)} :
          Called(mode, n_in, n_out, oom, r, twin)

InflateStep ==
    \E n_in \in InSizes, n_out \in OutSizes, oom \in OomOutcomes :
        Decode(INFLATELIB_MODE_DEFLATE, n_in, n_out, oom)

Inflate64Step ==
    \E n_in \in InSizes, n_out \in OutSizes, oom \in OomOutcomes :
        Decode(INFLATELIB_MODE_DEFLATE64, n_in, n_out, oom)

Next == InflateStep \/ Inflate64Step

Spec == Init /\ [][Next]_vars

(***************************************************************************)
(* The whole life of a stream object: the caller zero-initialises it,      *)
(* calls inflatelib_init (any one of whose four allocations may fail),     *)
(* decodes, resets and points the stream at another input, and destroys.   *)
(***************************************************************************)
Returned(op, rc) == [NoCall EXCEPT !.op = op, !.rc = rc]

\* the inputs a caller decodes on a stream it has just initialised
LifeInputs == 1..11

LifeInit ==
    /\ w = ZeroWorld
    /\ input \in LifeInputs
    /\ out = <<>>
    /\ call = NoCall
    /\ hist = [FreshHist EXCEPT !.life = "zero"]
    /\ shadow = NoTwin

\* failAt = 0: every allocation succeeds
AllocFailures == 0..4

InitStep ==
    /\ hist.life = "zero"
    /\ \E failAt \in AllocFailures : \E r \in {inflatelib_init(w, failAt)} :
          /\ w' = r.w
          /\ call' = Returned("init", r.result)
          /\ hist' = [hist EXCEPT !.life = IF r.result = INFLATELIB_OK THEN "live" ELSE "failed"]
    /\ UNCHANGED <<input, out, shadow>>

\* a stream as inflatelib_init leaves it, on which the calls that follow a
\* reset are repeated
FreshTwin == [on |-> TRUE, w |-> inflatelib_init(ZeroWorld, 0).w, out |-> <<>>, rc |-> INFLATELIB_OK]

\* the inputs a caller decodes on a stream it has reset: the dynamic block, the
\* back-reference that reaches before the start of the output, and the stream
\* of fixed and stored blocks
ResetInputs == {4, 8, 11}

\* inflatelib_reset, after which the caller points the stream at the start of
\* an input and of an empty output buffer; a caller whose reset is refused
\* leaves the stream as it is
ResetStep ==
    /\ hist.resets < MaxResets
    /\ \E next \in ResetInputs : \E r \in {inflatelib_reset(w)} :
          IF r.result = INFLATELIB_OK
          THEN /\ w' = [r.w EXCEPT !.stream.next_in = 0, !.stream.avail_in = 0,
                                   !.stream.next_out = 0, !.stream.avail_out = 0]
               /\ input' = next
               /\ call' = Returned("reset", r.result)
               /\ hist' = [hist EXCEPT !.resets = @ + 1, !.eof = FALSE, !.bound = -1, !.dead = FALSE]
               /\ shadow' = FreshTwin
               /\ out' = <<>>
          ELSE /\ w' = r.w
               /\ call' = Returned("reset", r.result)
               /\ UNCHANGED <<input, out, hist, shadow>>

\* inflatelib_destroy, which ends the comparison with the second stream; what
\* the caller has seen of EOF was said of the state that is now freed
DestroyStep ==
    /\ \E r \in {inflatelib_destroy(w)} :
          /\ w' = r.w
          /\ call' = Returned("destroy", r.result)
    /\ hist' = [hist EXCEPT !.life = "destroyed", !.eof = FALSE]
    /\ shadow' = NoTwin
    /\ UNCHANGED <<input, out>>

LifeNext == InitStep \/ InflateStep \/ Inflate64Step \/ ResetStep \/ DestroyStep

LifeSpec == LifeInit /\ [][LifeNext]_vars

(***************************************************************************)
(* The window on its own, as WindowTests.cpp drives it.  The window is the *)
(* one of a freshly initialised stream, w.state.window.  The caller puts   *)
(* in the bytes a, b, c (one at a time, or as the stored bytes of a reader *)
(* that holds them), then copies back: it doubles the contents when their  *)
(* size is odd and adds one byte when it is even, which takes the total    *)
(* through 3, 6, 7, 14, 15, ..., 32767, 65534, 65535, 65536; at some       *)
(* totals it also asks for a copy longer than its distance, and on the     *)
(* full history for the longest match of Deflate64 at the longest          *)
(* distance.  A copy that the free space cut short is continued with the   *)
(* rest of its length, as inflater_read_compressed does, once the output   *)
(* has been drained.  hist holds the match in progress: its distance and   *)
(* length, the total when it began and what is left of it.                 *)
(***************************************************************************)
MaxWindowTotal == 65537

\* the longest match of Deflate64
MaxMatchLength == 65538

WindowCall(op, rc, distance, length) ==
    [op |-> op, rc |-> rc, distance |-> distance, length |-> length]

NoMatch == [distance |-> 0, length |-> 0, start |-> 0, pending |-> 0]

WindowBytes == <<97, 98, 99>>

WindowInit ==
    /\ w = inflatelib_init(ZeroWorld, 0).w
    /\ input = 1
    /\ out = <<>>
    /\ call = WindowCall("none", 0, 0, 0)
    /\ hist = NoMatch
    /\ shadow = NoTwin

WindowLength ==
    IF w.state.window.total_bytes % 2 = 1 /\ w.state.window.total_bytes < DEFLATE64_WINDOW_SIZE - 1
    THEN w.state.window.total_bytes
    ELSE 1

\* the totals at which a copy longer than its distance is asked for
OverlapTotals == {3, DEFLATE64_WINDOW_SIZE - 1}

\* <<distance, length>>
WindowCopies ==
    { <<w.state.window.total_bytes, WindowLength>>,
      <<w.state.window.total_bytes + 1, WindowLength>>,
      <<DEFLATE64_WINDOW_SIZE, WindowLength>> }
    \cup (IF w.state.window.total_bytes \in OverlapTotals
          THEN { <<(w.state.window.total_bytes + 1) \div 2, w.state.window.total_bytes>> }
          ELSE {})
    \cup (IF w.state.window.total_bytes >= DEFLATE64_WINDOW_SIZE
          THEN { <<DEFLATE64_WINDOW_SIZE, MaxMatchLength>> }
          ELSE {})

\* window_reset once the three bytes are in
WindowResetStep ==
    /\ w.state.window.total_bytes = Len(WindowBytes)
    /\ w' = [w EXCEPT !.state.window = window_reset(w.state.window)]
    /\ call' = WindowCall("window_reset", 0, 0, 0)
    /\ UNCHANGED <<input, out, hist, shadow>>

\* window_write_byte of the next of the three bytes, or on the full window
WindowWriteStep ==
    /\ \/ w.state.window.total_bytes < Len(WindowBytes)
       \/ w.state.window.unconsumed_bytes = DEFLATE64_WINDOW_SIZE
    /\ \E r \in {window_write_byte(w.state.window, WindowBytes[(w.state.window.total_bytes % 3) + 1])} :
          /\ w' = [w EXCEPT !.state.window = r.w]
          /\ call' = WindowCall("window_write_byte", r.ok, 0, 0)
    /\ UNCHANGED <<input, out, hist, shadow>>

\* window_write_byte_consume, whose assertions are the guard, between two
\* matches once the history is nearly full
WindowWriteConsumeStep ==
    /\ w.state.window.unconsumed_bytes = 0
    /\ w.state.window.write_offset = w.state.window.read_offset
    /\ hist.pending = 0
    /\ w.state.window.total_bytes \in {DEFLATE64_WINDOW_SIZE - 2, DEFLATE64_WINDOW_SIZE - 1}
    /\ w' = [w EXCEPT !.state.window = window_write_byte_consume(w.state.window, 120)]
    /\ call' = WindowCall("window_write_byte_consume", 0, 0, 0)
    /\ UNCHANGED <<input, out, hist, shadow>>

\* window_copy_bytes of the three bytes into the empty window, from a reader of
\* the caller's own that holds them
WindowCopyBytesStep ==
    /\ w.state.window.total_bytes = 0
    /\ \E r \in {window_copy_bytes(w.state.window,
                                   bitstream_set_data(w.state.bitstream, 0, Len(WindowBytes)),
                                   Len(WindowBytes), WindowBytes)} :
          /\ w' = [w EXCEPT !.state.window = r.w]
          /\ call' = WindowCall("window_copy_bytes", r.result, 0, Len(WindowBytes))
    /\ UNCHANGED <<input, out, hist, shadow>>

\* window_copy_length_distance: what is left of the match in progress, or a new
\* match
WindowCopyStep ==
    /\ hist.pending > 0 \/ w.state.window.total_bytes < MaxWindowTotal
    /\ \E c \in (IF hist.pending > 0 THEN { <<hist.distance, hist.pending>> }
                 ELSE {p \in WindowCopies : p[1] > 0}) :
          \E r \in {window_copy_length_distance(w.state.window, c[1], c[2])} :
             /\ w' = [w EXCEPT !.state.window = r.w]
             /\ call' = WindowCall("window_copy_length_distance", r.result, c[1], c[2])
             /\ hist' = IF r.result < 0 THEN NoMatch
                        ELSE IF hist.pending > 0 THEN [hist EXCEPT !.pending = @ - r.result]
                        ELSE [distance |-> c[1], length |-> c[2],
                              start |-> w.state.window.total_bytes, pending |-> c[2] - r.result]
    /\ UNCHANGED <<input, out, shadow>>

\* window_copy_output once half of the window is waiting, into a buffer that
\* takes all of it or, when the window is full and the match in progress has
\* one or two bytes to go, one byte
WindowDrainStep ==
    /\ w.state.window.unconsumed_bytes >= DEFLATE64_WINDOW_SIZE \div 2
    /\ \E size \in (IF hist.pending \in {1, 2} /\ w.state.window.unconsumed_bytes = DEFLATE64_WINDOW_SIZE
                    THEN {1, DEFLATE64_WINDOW_SIZE}
                    ELSE {DEFLATE64_WINDOW_SIZE}) :
          \E r \in {window_copy_output(w.state.window, size)} :
             /\ w' = [w EXCEPT !.state.window = r.w]
             /\ call' = WindowCall("window_copy_output", Len(r.bytes), 0, size)
    /\ UNCHANGED <<input, out, hist, shadow>>

WindowNext ==
    \/ WindowResetStep
    \/ WindowWriteStep
    \/ WindowWriteConsumeStep
    \/ WindowCopyBytesStep
    \/ WindowCopyStep
    \/ WindowDrainStep

WindowSpec == WindowInit /\ [][WindowNext]_vars

(***************************************************************************)
(* The bit reader on its own, as BitstreamTests.cpp drives it: the caller  *)
(* hands it the next bytes of an input (bitstream_set_data), loads the     *)
(* buffer (bitstream_fill_buffer) and reads.  The reader is the one of a   *)
(* freshly initialised stream, w.state.bitstream.  hist.pos counts the     *)
(* bits the successful reads have asked for, hist.failed is the size of    *)
(* the read that last failed with no read succeeding since, hist.retried   *)
(* whether the last successful read was such a read, repeated.             *)
(***************************************************************************)
\* the number of bits the reader has taken from the bytes it was handed
LogicalPosition(bs) == 8 * bs.data - bs.bits_in_buffer - bs.bits_in_extra_buffer

\* the inputs: the byte 0xA5; the three bytes of the out-of-data test; ten
\* bytes, more than the buffer holds
BitData ==
    << <<165>>,
       <<171, 205, 83>>,
       <<75, 4, 62, 85, 245, 255, 1, 128, 90, 60>>,
       <<75, 4, 62, 85, 245, 255, 1, 128, 90, 60, 0, 0, 0, 0, 0, 0, 255>> >>

BitMem == BitData[input]

MaxSupply == 2

ReadSizes == {1, 2, 4, 5, 12, 16}

BitCall(op, rc, bits, value) == [op |-> op, rc |-> rc, bits |-> bits, value |-> value]

BitInit ==
    /\ w = inflatelib_init(ZeroWorld, 0).w
    /\ input \in 1..(Len(BitData) - 1)
    /\ out = <<>>
    /\ call = BitCall("none", 0, 0, 0)
    /\ hist = [pos |-> 0, failed |-> 0, retried |-> FALSE]
    /\ shadow = NoTwin

\* the bytes of the input the reader has not been handed yet
BitRest == Len(BitMem) - (w.state.bitstream.data + w.state.bitstream.length)

\* bitstream_set_data with k more bytes of the input, then bitstream_fill_buffer
BitSupplyStep ==
    /\ BitRest > 0
    /\ \E k \in {n \in 1..MaxSupply : n <= BitRest} \cup {BitRest} :
       \E bs \in {bitstream_fill_buffer(
                      bitstream_set_data(w.state.bitstream, w.state.bitstream.data,
                                         w.state.bitstream.length + k),
                      BitMem)} :
          /\ w' = [w EXCEPT !.state.bitstream = bs]
          /\ call' = BitCall("bitstream_fill_buffer", bs.bits_in_buffer, 0, 0)
    /\ UNCHANGED <<input, out, hist, shadow>>

\* bitstream_fill_buffer when the reader still has bytes it was handed
BitFillStep ==
    /\ w.state.bitstream.length > 0
    /\ w.state.bitstream.bits_in_buffer < 64
    /\ \E bs \in {bitstream_fill_buffer(w.state.bitstream, BitMem)} :
          /\ w' = [w EXCEPT !.state.bitstream = bs]
          /\ call' = BitCall("bitstream_fill_buffer", bs.bits_in_buffer, 0, 0)
    /\ UNCHANGED <<input, out, hist, shadow>>

\* bitstream_read_bits, the buffer having been loaded as its assertion asks
BitReadStep ==
    /\ \E n \in ReadSizes : \E r \in {bitstream_read_bits(w.state.bitstream, n)} :
          /\ \/ w.state.bitstream.bits_in_buffer >= n
             \/ w.state.bitstream.bits_in_extra_buffer = 0 /\ w.state.bitstream.length = 0
          /\ w' = [w EXCEPT !.state.bitstream = r.bs]
          /\ call' = BitCall("bitstream_read_bits", r.ok, n, r.result)
          /\ hist' = IF r.ok = 1
                     THEN [pos |-> hist.pos + n, failed |-> 0, retried |-> hist.failed = n]
                     ELSE [hist EXCEPT !.failed = n]
    /\ UNCHANGED <<input, out, shadow>>

BitNext == BitSupplyStep \/ BitFillStep \/ BitReadStep

(***************************************************************************)
(* The reader under every operation it has, each within its assertions:    *)
(* a second bitstream_fill_buffer, bitstream_peek with                     *)
(* bitstream_consume_bits and bitstream_byte_align too, over the longest   *)
(* input.                                                                  *)
(***************************************************************************)
RefillInit ==
    /\ w = inflatelib_init(ZeroWorld, 0).w
    /\ input = Len(BitData)
    /\ out = <<>>
    /\ call = BitCall("none", 0, 0, 0)
    /\ hist = [pos |-> 0, failed |-> 0, retried |-> FALSE]
    /\ shadow = NoTwin

\* bitstream_set_data with more of the input, then bitstream_fill_buffer: the
\* input comes whole, or its first byte and then the others
RefillSupplyStep ==
    /\ BitRest > 0
    /\ \E k \in {n \in {1} : BitRest = Len(BitMem)} \cup {BitRest} :
       \E bs \in {bitstream_set_data(w.state.bitstream, w.state.bitstream.data,
                                     w.state.bitstream.length + k)} :
          /\ FillAsserts(bs)
          /\ w' = [w EXCEPT !.state.bitstream = bitstream_fill_buffer(bs, BitMem)]
          /\ call' = BitCall("bitstream_fill_buffer", 0, 0, 0)
    /\ UNCHANGED <<input, out, hist, shadow>>

\* bitstream_fill_buffer when the reader still has bytes it was handed
RefillFillStep ==
    /\ FillAsserts(w.state.bitstream)
    /\ w.state.bitstream.length > 0
    /\ w.state.bitstream.bits_in_buffer < 64
    /\ w' = [w EXCEPT !.state.bitstream = bitstream_fill_buffer(w.state.bitstream, BitMem)]
    /\ call' = BitCall("bitstream_fill_buffer", 0, 0, 0)
    /\ UNCHANGED <<input, out, hist, shadow>>

RefillSizes == {2, 13, 16}

\* bitstream_read_bits, the buffer having been loaded as its assertion asks
RefillReadStep ==
    /\ \E n \in RefillSizes : \E r \in {bitstream_read_bits(w.state.bitstream, n)} :
          /\ \/ w.state.bitstream.bits_in_buffer >= n
             \/ w.state.bitstream.bits_in_extra_buffer = 0 /\ w.state.bitstream.length = 0
          /\ w' = [w EXCEPT !.state.bitstream = r.bs]
          /\ call' = BitCall("bitstream_read_bits", r.ok, n, r.result)
          /\ hist' = IF r.ok = 1 THEN [hist EXCEPT !.pos = hist.pos + n] ELSE hist
    /\ UNCHANGED <<input, out, shadow>>

\* bitstream_fill_buffer once more, nothing having been read since the last
RefillAgainStep ==
    /\ call.op \in {"bitstream_fill_buffer", "bitstream_fill_buffer again"}
    /\ FillAsserts(w.state.bitstream)
    /\ \E bs \in {bitstream_fill_buffer(w.state.bitstream, BitMem)} :
          /\ w' = [w EXCEPT !.state.bitstream = bs]
          /\ call' = BitCall("bitstream_fill_buffer again", 0, 0, 0)
    /\ UNCHANGED <<input, out, hist, shadow>>

\* the next boundary of a byte at or after bit position p
AlignedUp(p) == p + ((8 - (p % 8)) % 8)

PeekSizes == {3, 9}

\* bitstream_peek, then bitstream_consume_bits of n of the bits it has shown,
\* as a lookup in a Huffman table does
BitPeekStep ==
    /\ \E n \in PeekSizes : \E p \in {bitstream_peek(w.state.bitstream)} :
          /\ n <= p.bits
          /\ w' = [w EXCEPT !.state.bitstream = bitstream_consume_bits(w.state.bitstream, n)]
          /\ call' = BitCall("bitstream_peek", p.bits, n, p.result)
          /\ hist' = [hist EXCEPT !.pos = hist.pos + n]
    /\ UNCHANGED <<input, out, shadow>>

\* bitstream_byte_align, whose assertion is the guard
BitAlignStep ==
    /\ w.state.bitstream.bits_in_buffer + w.state.bitstream.bits_in_extra_buffer
          - ((w.state.bitstream.bits_in_buffer + w.state.bitstream.bits_in_extra_buffer) % 8) <= 64
    /\ \E bs \in bitstream_byte_align_outcomes(w.state.bitstream) :
          w' = [w EXCEPT !.state.bitstream = bs]
    /\ call' = BitCall("bitstream_byte_align", 0, 0, 0)
    /\ hist' = [hist EXCEPT !.pos = AlignedUp(hist.pos)]
    /\ UNCHANGED <<input, out, shadow>>

RefillNext ==
    \/ RefillSupplyStep
    \/ RefillFillStep
    \/ RefillAgainStep
    \/ RefillReadStep
    \/ BitPeekStep
    \/ BitAlignStep

RefillSpec == RefillInit /\ [][RefillNext]_vars

BitSpec == BitInit /\ [][BitNext]_vars

(***************************************************************************)
(* A Huffman table on its own, as HuffmanTreeTests.cpp drives it: the      *)
(* distance tree of a freshly initialised stream is built from a vector of *)
(* 32 code lengths (huffman_tree_reset), the input is handed over in       *)
(* strides and symbols are looked up until the lookup asks for more input  *)
(* or fails.  `out` holds the symbols decoded, hist.pos the bits they took *)
(* and hist.built whether the table has been built.                        *)
(***************************************************************************)
\* the code lengths of the symbols 0, 1, ..., the missing ones being 0
CodeLengthVector(lens) ==
    SubSeq([i \in 1..DIST_TREE_MAX_ELEMENT_COUNT |-> IF i <= Len(lens) THEN lens[i] ELSE 0],
           1, DIST_TREE_MAX_ELEMENT_COUNT)

\* 1: a code of the lengths 1 to 15, complete, half of it beyond the direct
\*    table; the input spells every symbol once, and a last 0
\* 2: five codes of length 3, which leave 101, 110 and 111 without a symbol;
\*    the input spells seven symbols and then 110
\* 3: no code at all
\* 4, 5: more codes of length 1, and of length 3, than there are
TreeCases ==
    << [lengths |-> CodeLengthVector(<<1, 2, 3, 4, 5, 6, 7, 8, 9, 10, 11, 12, 13, 14, 15, 15>>),
        data |-> <<255, 127, 255, 191, 254, 191, 253, 191, 251, 191, 247, 191, 239, 191, 223, 191, 63>>,
        symbols |-> <<15, 0, 14, 1, 13, 2, 12, 3, 11, 4, 10, 5, 9, 6, 8, 7, 0>>],
       [lengths |-> CodeLengthVector(<<3, 3, 3, 3, 3>>),
        data |-> <<96, 172, 112>>,
        symbols |-> <<0, 1, 4, 3, 2, 4, 1>>],
       [lengths |-> CodeLengthVector(<<>>),
        data |-> <<90>>,
        symbols |-> <<>>],
       [lengths |-> CodeLengthVector(<<1, 1, 1>>),
        data |-> <<90>>,
        symbols |-> <<>>],
       [lengths |-> CodeLengthVector(<<2, 2, 2, 0, 3, 3, 3>>),
        data |-> <<90>>,
        symbols |-> <<>>] >>

TreeMem == TreeCases[input].data

\* the strides of the test: 1 byte, 7 bytes, everything
TreeStrides == {1, 7, Len(TreeMem)}

TreeCall(op, rc, symbol, bits) == [op |-> op, rc |-> rc, symbol |-> symbol, bits |-> bits]

TreeInit ==
    /\ w = inflatelib_init(ZeroWorld, 0).w
    /\ input \in 1..Len(TreeCases)
    /\ out = <<>>
    /\ call = TreeCall("none", 0, 0, 0)
    /\ hist = [pos |-> 0, built |-> "no", stride |-> 0]
    /\ shadow = NoTwin

\* huffman_tree_reset with the code lengths of the case; the caller picks its stride
TreeResetStep ==
    /\ hist.built = "no"
    /\ \E stride \in TreeStrides :
       \E t \in {huffman_tree_reset(w.state.distance_tree, TreeCases[input].lengths,
                                    DIST_TREE_MAX_ELEMENT_COUNT)} :
          /\ w' = [w EXCEPT !.state.distance_tree = t.tree]
          /\ call' = TreeCall("huffman_tree_reset", t.result, 0, 0)
          /\ hist' = [hist EXCEPT !.built = IF t.result = INFLATELIB_OK THEN "ok" ELSE "failed",
                                  !.stride = stride]
    /\ UNCHANGED <<input, out, shadow>>

\* the bytes of the input the reader has not been handed yet
TreeRest == Len(TreeMem) - (w.state.bitstream.data + w.state.bitstream.length)

\* bitstream_set_data with the next stride of the input, then bitstream_fill_buffer
TreeSupplyStep ==
    /\ hist.built = "ok"
    /\ call.rc = 0
    /\ TreeRest > 0
    /\ \E bs \in {bitstream_fill_buffer(
                      bitstream_set_data(w.state.bitstream, w.state.bitstream.data,
                                         w.state.bitstream.length + Min(hist.stride, TreeRest)),
                      TreeMem)} :
          /\ w' = [w EXCEPT !.state.bitstream = bs]
          /\ call' = TreeCall("bitstream_fill_buffer", bs.bits_in_buffer, 0, 0)
    /\ UNCHANGED <<input, out, hist, shadow>>

\* huffman_tree_lookup on the loaded reader; a lookup that has failed is not repeated
TreeLookupStep ==
    /\ hist.built = "ok"
    /\ ~(call.op = "huffman_tree_lookup" /\ call.rc < 0)
    /\ \E bs \in {bitstream_fill_buffer(w.state.bitstream, TreeMem)} :
       \E l \in {HuffmanLookup(w.state.distance_tree, bs, TRUE, bitstream_peek(bs))} :
          /\ w' = [w EXCEPT !.state.bitstream = l.bs]
          /\ call' = TreeCall("huffman_tree_lookup", l.r, l.symbol, bitstream_peek(bs).bits)
          /\ out' = IF l.r = 1 THEN Append(out, l.symbol) ELSE out
          /\ hist' = [hist EXCEPT !.pos = IF l.r = 1 THEN @ + TreeCases[input].lengths[l.symbol + 1] ELSE @]
    /\ UNCHANGED <<input, shadow>>

TreeNext == TreeResetStep \/ TreeSupplyStep \/ TreeLookupStep

TreeSpec == TreeInit /\ [][TreeNext]_vars

(***************************************************************************)
(* The caller that gives no room for output.  The input is one fixed       *)
(* Huffman block of 65536 literals 'a' followed by the literals 'b' to     *)
(* 'u' and the end of block.  The caller offers it StarveChunk bytes at a  *)
(* time with avail_out = 0 for as long as the calls make progress, so that *)
(* the literals pile up in the window; then it offers the rest of the      *)
(* input and a buffer of the size of the window, or of 32 bytes more.      *)
(***************************************************************************)
StarveChunk == 32

StarvedTail == <<76, 74, 78, 73, 77, 75, 207, 200, 204, 202, 206, 201, 205, 203, 47, 40, 44, 42, 46, 41, 5, 0>>

StarvedData == <<75>> \o [i \in 1..(DEFLATE64_WINDOW_SIZE - 1) |-> 76] \o StarvedTail

StarvedPlain ==
    [i \in 1..DEFLATE64_WINDOW_SIZE |-> 97]
    \o <<98, 99, 100, 101, 102, 103, 104, 105, 106, 107, 108, 109, 110, 111, 112, 113, 114, 115, 116, 117>>

StarveRest == Len(StarvedData) - w.stream.next_in

StarveInit ==
    /\ w = inflatelib_init(ZeroWorld, 0).w
    /\ input = 1
    /\ out = <<>>
    /\ call = NoCall
    /\ hist = FreshHist
    /\ shadow = NoTwin

\* the caller sets avail_in and avail_out and calls inflatelib_inflate
StarveCall(n_in, n_out) ==
    \E r \in {Inflate(Offer(w, n_in, n_out), INFLATELIB_MODE_DEFLATE, StarvedData, FALSE)} :
        /\ w' = r.w
        /\ out' = out \o r.output
        /\ call' = [op |-> "inflate", rc |-> r.result, avail_in |-> n_in, avail_out |-> n_out,
                    progress |-> r.w.stream.total_in > w.stream.total_in
                                 \/ r.w.stream.total_out > w.stream.total_out]
        /\ UNCHANGED <<input, hist, shadow>>

\* inflatelib_inflate on the next bytes of the input, with no room for output
StarveStep ==
    /\ call.rc = INFLATELIB_OK
    /\ call.op = "none" \/ (call.avail_out = 0 /\ call.progress)
    /\ StarveRest > 0
    /\ StarveCall(Min(StarveChunk, StarveRest), 0)

\* inflatelib_inflate on the rest of the input, with room for output, once a
\* call without room has made no progress
FeedStep ==
    /\ call.rc = INFLATELIB_OK
    /\ call.op = "inflate"
    /\ ~call.progress \/ call.avail_out > 0
    /\ \E room \in {DEFLATE64_WINDOW_SIZE, DEFLATE64_WINDOW_SIZE + 32} : StarveCall(StarveRest, room)

StarveNext == StarveStep \/ FeedStep

StarveSpec == StarveInit /\ [][StarveNext]_vars

(***************************************************************************)
(* The caller of Spec, who may also call with no input at any time.        *)
(***************************************************************************)
IdleStep ==
    \E mode \in {INFLATELIB_MODE_DEFLATE, INFLATELIB_MODE_DEFLATE64}, n_out \in OutSizes :
        Decode(mode, 0, n_out, FALSE)

IdleNext == InflateStep \/ Inflate64Step \/ IdleStep

IdleSpec == Init /\ [][IdleNext]_vars


(***************************************************************************)
(* The code lengths of a dynamic block on their own.  The stream has read  *)
(* HLIT, HDIST and a code length code that gives the symbols 8, 16, 17 and *)
(* 18 two bits each (8 is 00, 16 is 01, 17 is 10, 18 is 11), and stands at *)
(* the first code length.  Each call brings one more byte of input, so the *)
(* calls end wherever in a symbol or in its extra bits the byte ends.      *)
(* hist.mem holds the bytes brought so far.                                *)
(***************************************************************************)
\* the lengths of the code length code, as code_lengths holds them when the
\* code length tree is built
CodeLengthCodeLengths ==
    SubSeq([i \in 1..(LITERAL_TREE_MAX_ELEMENT_COUNT + DIST_TREE_MAX_ELEMENT_COUNT) |->
                IF i - 1 \in {8, 16, 17, 18} THEN 2 ELSE 0],
           1, LITERAL_TREE_MAX_ELEMENT_COUNT + DIST_TREE_MAX_ELEMENT_COUNT)

\* HLIT and HDIST of the blocks: the fewest and the most codes a block declares
CodeLengthCases == << [hlit |-> 257, hdist |-> 1], [hlit |-> 288, hdist |-> 32] >>

\* 0: 8, 8, 8, 8;  1: 17 with 000, 8, and a zero bit;  2: 16 with 00, 8, 8;
\* 255: 18 and one-bits
CodeLengthBytes == {0, 1, 2, 255}

MaxCodeLengthBytes == 5

CodeLengthInit ==
    /\ input \in 1..Len(CodeLengthCases)
    /\ w = [inflatelib_init(ZeroWorld, 0).w EXCEPT
              !.state.btype = 2,
              !.state.literal_length_code_count = CodeLengthCases[input].hlit,
              !.state.distance_code_count = CodeLengthCases[input].hdist,
              !.state.code_length_code_count = CODE_LENGTH_TREE_ELEMENT_COUNT,
              !.state.code_lengths = CodeLengthCodeLengths,
              !.state.code_length_tree =
                  huffman_tree_reset(@, CodeLengthCodeLengths, CODE_LENGTH_TREE_ELEMENT_COUNT).tree,
              !.state.loop_counter = 0,
              !.state.ifstate = "ifstate_reading_tree_codes_before"]
    /\ out = <<>>
    /\ call = [op |-> "none", rc |-> INFLATELIB_OK, byte |-> 0]
    /\ hist = [mem |-> <<>>]
    /\ shadow = NoTwin

\* inflatelib_inflate with one more byte of input and no room for output
CodeLengthStep ==
    /\ Len(hist.mem) < MaxCodeLengthBytes
    /\ call.rc = INFLATELIB_OK
    /\ w.state.ifstate \in {"ifstate_reading_tree_codes_before", "ifstate_reading_tree_codes_after"}
    /\ \E b \in CodeLengthBytes :
       \E r \in {Inflate(Offer(w, 1, 0), INFLATELIB_MODE_DEFLATE, Append(hist.mem, b), FALSE)} :
          /\ w' = r.w
          /\ out' = out \o r.output
          /\ call' = [op |-> "inflatelib_inflate", rc |-> r.result, byte |-> b]
          /\ hist' = [mem |-> Append(hist.mem, b)]
    /\ UNCHANGED <<input, shadow>>

CodeLengthNext == CodeLengthStep

CodeLengthSpec == CodeLengthInit /\ [][CodeLengthNext]_vars

(***************************************************************************)
(* The three tables on their own.  A caller writes a vector of code        *)
(* lengths run by run (hist.lengths; the symbols after the last run have   *)
(* length 0) and has the table of the alphabet built from it by            *)
(* huffman_tree_reset on a stream fresh from inflatelib_init.              *)
(***************************************************************************)
\* the alphabets: the tree of the stream, the number of symbols and the
\* longest code the decoder can hand to huffman_tree_reset
TableAlphabets ==
    << [tree |-> "code_length_tree", size |-> CODE_LENGTH_TREE_ELEMENT_COUNT, longest |-> 7],
       [tree |-> "distance_tree", size |-> DIST_TREE_MAX_ELEMENT_COUNT, longest |-> MAX_CODE_LENGTH],
       [tree |-> "literal_length_tree", size |-> LITERAL_TREE_MAX_ELEMENT_COUNT,
        longest |-> MAX_CODE_LENGTH] >>

\* the code length of a run and the number of symbols in it
RunLengths == {3, 7, 8, 14, 15}
RunCounts == {1, 4, 27, 31, 287}

\* the vectors a caller starts from: nothing, and the first five code lengths
\* of the "Memory Usage" test of HuffmanTreeTests.cpp, which go on with 27
\* codes of 15 bits
TableStarts == {<<>>, <<8, 9, 10, 13, 14>>}

MaxRuns == 2

\* the vector the caller hands over: hist.lengths and zeroes up to the size of the alphabet
TableCodeLengths ==
    SubSeq([i \in 1..TableAlphabets[input].size |->
                IF i <= Len(hist.lengths) THEN hist.lengths[i] ELSE 0],
           1, TableAlphabets[input].size)

\* the entries a table built from the vector uses: the lookup part and two
\* for each node of the binary tree part, nextTreeInsertIndex counting the
\* nodes as STEP 3 of huffman_tree_reset allocates them
EntriesUsed(tree, codeLengths, codeLengthsSize) ==
    Pow2(tree.table_bits)
    + 2 * AssignLoop(0, codeLengthsSize - 1, tree,
                     [entries |-> ZeroLookupTable(tree),
                      nextCodes |-> NextCodesLoop(1, 0, <<0, 0, 0, 0, 0, 0, 0, 0, 0, 0, 0, 0, 0, 0, 0>>,
                                                  BitLengthCount(codeLengths, codeLengthsSize)).nextCodes,
                      nextTreeInsertIndex |-> 0],
                     codeLengths).nextTreeInsertIndex

TableInit ==
    /\ w = inflatelib_init(ZeroWorld, 0).w
    /\ input \in 1..Len(TableAlphabets)
    /\ out = <<>>
    /\ call = [op |-> "none", rc |-> INFLATELIB_OK, used |-> 0]
    /\ \E start \in TableStarts :
          /\ \A k \in 1..Len(start) : start[k] <= TableAlphabets[input].longest
          /\ hist = [lengths |-> start, runs |-> 0, built |-> FALSE]
    /\ shadow = NoTwin

\* the caller adds a run of equal code lengths to the vector
TableRunStep ==
    /\ ~hist.built
    /\ hist.runs < MaxRuns
    /\ \E len \in RunLengths, n \in RunCounts :
          /\ len <= TableAlphabets[input].longest
          /\ Len(hist.lengths) + n <= TableAlphabets[input].size
          /\ hist' = [hist EXCEPT !.lengths = @ \o SubSeq([k \in 1..n |-> len], 1, n),
                                  !.runs = @ + 1]
          /\ call' = [op |-> "codeLengths", rc |-> INFLATELIB_OK, used |-> 0]
    /\ UNCHANGED <<w, input, out, shadow>>

\* huffman_tree_reset with the vector
TableResetStep ==
    /\ ~hist.built
    /\ \E t \in {huffman_tree_reset(w.state[TableAlphabets[input].tree], TableCodeLengths,
                                    TableAlphabets[input].size)} :
          /\ w' = [w EXCEPT !.state[TableAlphabets[input].tree] = t.tree]
          /\ call' = [op |-> "huffman_tree_reset", rc |-> t.result,
                      used |-> IF t.result = INFLATELIB_OK
                               THEN EntriesUsed(w.state[TableAlphabets[input].tree], TableCodeLengths,
                                                TableAlphabets[input].size)
                               ELSE 0]
    /\ hist' = [hist EXCEPT !.built = TRUE]
    /\ UNCHANGED <<input, out, shadow>>

TableNext == TableRunStep \/ TableResetStep

TableSpec == TableInit /\ [][TableNext]_vars

(***************************************************************************)
(* The properties.                                                         *)
(***************************************************************************)
IsDecode(c) == c.op \in {"inflate", "inflate64"}

\* the call reached do_inflate: the stream was live and the mode was the bound one
ReachedDecoder(c) == IsDecode(c) /\ c.rc # INFLATELIB_ERROR_ARG

ResultOf(r) ==
    [rc |-> r.result, out |-> r.output, total_in |-> r.w.stream.total_in,
     total_out |-> r.w.stream.total_out]

\* Corpus[i] decoded by a single call that is given all the input and MaxOutput
\* bytes of output space
OneShot(i, mode) ==
    ResultOf(Inflate(Offer(inflatelib_init(ZeroWorld, 0).w, Len(Corpus[i].data), MaxOutput),
                     mode, Corpus[i].data, FALSE))

Reference ==
    << SubSeq([i \in 1..Len(Corpus) |-> OneShot(i, INFLATELIB_MODE_DEFLATE)], 1, Len(Corpus)),
       SubSeq([i \in 1..Len(Corpus) |-> OneShot(i, INFLATELIB_MODE_DEFLATE64)], 1, Len(Corpus)) >>

SameAsOneShot(ref) ==
    /\ out = ref.out
    /\ call.rc = ref.rc
    /\ w.stream.total_in = ref.total_in
    /\ w.stream.total_out = ref.total_out

\* C1: whatever the chunking of input and output, once the calls have reached
\* their final return code (EOF or a data error) the output bytes, the return
\* code, total_in and total_out are those of the single call that is given all
\* the input and room for the whole output.
C1_StrideIndependence ==
    (ReachedDecoder(call) /\ call.rc \in {INFLATELIB_EOF, INFLATELIB_ERROR_DATA})
        => SameAsOneShot(Reference[hist.bound + 1][input])

IsPrefix(s, t) == Len(s) <= Len(t) /\ s = SubSeq(t, 1, Len(s))

C3_EofOnlyAfterFinalBlock ==
    (IsDecode(call) /\ call.rc = INFLATELIB_EOF)
        => /\ w.state.ifstate = "ifstate_eof"
           /\ w.state.bfinal # 0
           /\ w.state.window.unconsumed_bytes = 0
           /\ w.state.window.total_bytes = Len(out)
           /\ w.stream.total_out = Len(out)

\* EOF at the end of the stream whose first two blocks are not final
C3_Witness ==
    /\ input = 11
    /\ call.rc = INFLATELIB_EOF
    /\ call.avail_out = 1
    /\ w.state.window.total_bytes = 6

\* C4: a call that returns INFLATELIB_OK has used up the input or the output
\* space it was given.
C4_OkMeansStarved ==
    (ReachedDecoder(call) /\ call.rc = INFLATELIB_OK)
        => (w.stream.avail_in = 0 \/ w.stream.avail_out = 0)

\* a call that stops for lack of output space with input left over
C4_Witness ==
    /\ call.rc = INFLATELIB_OK
    /\ w.stream.avail_in > 0
    /\ w.stream.avail_out = 0
    /\ Len(out) > 0

\* C5: while a complete valid stream is decoded by the entry point of its
\* encoding, every call either returns EOF or returns OK after consuming input
\* or writing output, and total_in and total_out never exceed the lengths of
\* the stream and of the encoded byte string: at most that many calls return
\* OK before EOF is returned.
C5_EveryCallProgresses ==
    (ReachedDecoder(call) /\ hist.bound \in Corpus[input].complete)
        => /\ call.rc = INFLATELIB_EOF \/ (call.rc = INFLATELIB_OK /\ call.progress)
           /\ w.stream.total_in <= Len(mem)
           /\ w.stream.total_out <= Len(Corpus[input].plain)

\* EOF reached in strides of one byte of input and one byte of output
C5_Witness ==
    /\ input = 4
    /\ call.rc = INFLATELIB_EOF
    /\ call.progress
    /\ call.avail_in = 0
    /\ call.avail_out = 1
    /\ out = Corpus[4].plain

\* C6: once EOF has been returned, and until a reset, every call of the same
\* entry point returns EOF again, leaves next_in and avail_in as the caller set
\* them and writes nothing.
C6_EofTerminal ==
    [][(hist.eof /\ IsDecode(call') /\ call'.op = OpName(hist.bound) /\ hist'.resets = hist.resets)
          => /\ call'.rc = INFLATELIB_EOF
             /\ w'.stream.next_in = w.stream.next_in
             /\ w'.stream.avail_in = call'.avail_in
             /\ w'.stream.next_out = w.stream.next_out
             /\ w'.stream.avail_out = call'.avail_out
             /\ w'.stream.total_in = w.stream.total_in
             /\ w'.stream.total_out = w.stream.total_out
             /\ out' = out]_vars

\* the byte after the end of the stream is offered to a stream at EOF and is left unread
C6_Witness ==
    /\ input = 10
    /\ hist.eof
    /\ call.rc = INFLATELIB_EOF
    /\ call.avail_in = 1
    /\ w.stream.avail_in = 1
    /\ w.stream.total_in = 5

\* C7: the calls that follow a reset return the same codes and write the same
\* bytes as the same calls on a stream that has just been initialised.
C7_ResetEquivalence ==
    (shadow.on /\ IsDecode(call)) => (shadow.out = out /\ shadow.rc = call.rc)

\* a stream that had written output before the reset decodes the next input in full
C7_Witness ==
    /\ shadow.on
    /\ input = 11
    /\ call.rc = INFLATELIB_EOF
    /\ out = Corpus[11].plain
    /\ w.stream.total_out > Len(out)

\* C8: on a live stream the first decoding call after init or reset is
\* accepted whichever its mode, and from then until the next reset a call of
\* the other mode returns INFLATELIB_ERROR_ARG and a call of the same mode does not.
C8_ModeBinding ==
    [][(IsDecode(call') /\ w.stream.internal # 0)
          => IF hist.bound = -1 \/ call'.op = OpName(hist.bound)
             THEN call'.rc # INFLATELIB_ERROR_ARG /\ hist'.bound \in {hist.bound, w'.state.mode}
             ELSE call'.rc = INFLATELIB_ERROR_ARG /\ hist'.bound = hist.bound]_vars

\* after a reset the stream is bound to Deflate64 and rejects inflatelib_inflate
C8_Witness ==
    /\ hist.resets = 1
    /\ hist.bound = INFLATELIB_MODE_DEFLATE64
    /\ call.op = "inflate"
    /\ call.rc = INFLATELIB_ERROR_ARG
    /\ w.stream.total_out > 0

\* C9: a call that reaches the decoder adds to total_in and to next_in the
\* input it consumed (avail_in as set, less avail_in on return), and to
\* total_out the output it wrote (avail_out as set, less avail_out on return);
\* no step makes either counter smaller.
C9_TotalsAccounting ==
    [][/\ w'.stream.total_in >= w.stream.total_in
       /\ w'.stream.total_out >= w.stream.total_out
       /\ ReachedDecoder(call')
             => /\ call'.avail_in >= w'.stream.avail_in
                /\ call'.avail_out >= w'.stream.avail_out
                /\ w'.stream.total_in = w.stream.total_in + (call'.avail_in - w'.stream.avail_in)
                /\ w'.stream.next_in = w.stream.next_in + (call'.avail_in - w'.stream.avail_in)
                /\ w'.stream.total_out = w.stream.total_out + (call'.avail_out - w'.stream.avail_out)
                /\ w'.stream.next_out = w.stream.next_out + (call'.avail_out - w'.stream.avail_out)
                /\ Len(out') = Len(out) + (call'.avail_out - w'.stream.avail_out)]_vars

\* a call that ends in a data error after reading input and writing output
C9_Witness ==
    /\ call.rc = INFLATELIB_ERROR_DATA
    /\ w.stream.total_in > 0
    /\ w.stream.total_out > 0
    /\ call.avail_in > w.stream.avail_in

\* C10: once inflatelib_destroy has returned, every block allocated since
\* init has been freed, none of them twice, and the call returned INFLATELIB_OK.
C10_DestroyReleasesAll ==
    call.op = "destroy"
        => /\ call.rc = INFLATELIB_OK
           /\ ~w.heap.double_free
           /\ w.heap.live = {}

\* C11: when inflatelib_init fails it returns INFLATELIB_ERROR_OOM, the stream
\* has no internal state and no block allocated by that call is still
\* allocated, none having been freed twice.
C11_InitOomLeavesNothing ==
    (call.op = "init" /\ call.rc # INFLATELIB_OK)
        => /\ call.rc = INFLATELIB_ERROR_OOM
           /\ w.stream.internal = 0
           /\ w.heap.live = {}
           /\ ~w.heap.double_free

\* C12: window_copy_length_distance fails exactly when the distance is greater
\* than the number of bytes written to the window so far (a distance of 65536
\* after 65535 bytes included), and then leaves the window as it was; when it
\* succeeds the bytes it has written repeat those the distance points back to.
C12_DistanceCheck ==
    [][call'.op = "window_copy_length_distance"
          => /\ call'.rc < 0 <=> call'.distance > w.state.window.total_bytes
             /\ call'.rc < 0 => w'.state.window = w.state.window
             /\ call'.rc >= 0
                   => /\ w'.state.window.total_bytes = w.state.window.total_bytes + call'.rc
                      /\ \A k \in {0, call'.rc - 1} \cap (0..(call'.rc - 1)) :
                            WinGet(w'.state.window.data, (w.state.window.write_offset + k) % 65536)
                            = WinGet(IF k < call'.distance THEN w.state.window.data ELSE w'.state.window.data,
                                     (w.state.window.write_offset + k + 2 * 65536 - call'.distance) % 65536)]_vars

\* a distance of 65536 is refused when 65535 bytes have been written
C12_Witness ==
    /\ call.op = "window_copy_length_distance"
    /\ call.distance = 65536
    /\ call.rc < 0
    /\ w.state.window.total_bytes = 65535

\* the text of the stream's error message
ErrorText == w.stream.error_msg.text

\* C13: a stored block whose LEN (2) is not the complement of its NLEN (0)
\* ends in INFLATELIB_ERROR_DATA however its header is split over the calls:
\* every call returns INFLATELIB_OK until the call that takes the last of the
\* four bytes of LEN and NLEN, which returns INFLATELIB_ERROR_DATA with the
\* message that names both values (or its fallback when the message cannot be
\* allocated), and no byte is ever written to the output or the window.
C13_StoredLengthMismatch ==
    (input = 7 /\ ReachedDecoder(call))
        => /\ out = <<>>
           /\ w.stream.total_out = 0
           /\ w.state.window.total_bytes = 0
           /\ call.rc = (IF w.stream.total_in >= 5 THEN INFLATELIB_ERROR_DATA ELSE INFLATELIB_OK)
           /\ call.rc = INFLATELIB_ERROR_DATA
                 => ErrorText \in
                      { <<"Uncompressed block length (%04X) does not match its encoded one's complement value (%04X)", 2, 0>>,
                        <<"Uncompressed block length does not match its encoded one's complement value">> }

\* the header arrived one byte per call and the fifth byte of the stream, the
\* last of NLEN, brought the error
C13_Witness ==
    /\ input = 7
    /\ call.op = "inflate64"
    /\ call.rc = INFLATELIB_ERROR_DATA
    /\ call.avail_in = 1
    /\ w.stream.total_in = 5
    /\ Len(ErrorText) = 3

\* the message a dynamic block of the corpus ends with when a repeat code is
\* out of place, and the message that stands in when it cannot be allocated
RepeatErrors(i) ==
    CASE i = 12 -> { <<"Code length repeat code encountered at beginning of data">> }
      [] i = 13 -> { <<"Zero repeat code specifies %u repetitions, but only %u codes remain", 138, 120>>,
                     <<"Zero repeat code specifies more repetitions than codes remain">> }
      [] i = 14 -> { <<"Code length repeat code specifies %u repetitions, but only %u codes remain", 3, 2>>,
                     <<"Code length repeat code specifies more repetitions than codes remain">> }
      [] i = 15 -> { <<"Zero repeat code specifies %u repetitions, but only %u codes remain", 6, 5>>,
                     <<"Zero repeat code specifies more repetitions than codes remain">> }
      [] OTHER -> {}

\* C14: in a dynamic block that declares 257 + 1 code lengths, a code 16
\* ahead of every length (stream 12) and a code 18, 16 or 17 whose count runs
\* past the 258 (streams 13, 14, 15) end the decoding in INFLATELIB_ERROR_DATA
\* with the message of that case, as soon as the bits of the code have been
\* offered and not before; nothing is written to the output, no cell of
\* code_lengths beyond the 258th is written and the count of lengths read
\* never passes 258.
C14_RepeatCodesBounded ==
    (input \in 12..15 /\ ReachedDecoder(call))
        => /\ out = <<>>
           /\ call.rc = (IF Rest = 0 THEN INFLATELIB_ERROR_DATA ELSE INFLATELIB_OK)
           /\ call.rc = INFLATELIB_ERROR_DATA => ErrorText \in RepeatErrors(input)
           /\ w.state.loop_counter <= 258
           /\ \A k \in 259..Len(w.state.code_lengths) : w.state.code_lengths[k] = 0

\* the code 16 that would take the 257th, 258th and 259th length from the
\* 256th, which is 8, has been refused; the input came one byte per call
C14_Witness ==
    /\ input = 14
    /\ call.rc = INFLATELIB_ERROR_DATA
    /\ call.avail_in = 1
    /\ w.state.length_code = 16
    /\ w.state.loop_counter = 256
    /\ w.state.code_lengths[256] = 8
    /\ Len(ErrorText) = 3

\* the messages a distance symbol of 30 or 31 brings: in Deflate the symbol is
\* refused, in Deflate64 it stands for 32769 or 49153 plus 14 extra bits
\* (0x2AAA in the corpus), a distance the one byte in the window cannot serve
DistanceErrors(op, i) ==
    IF op = "inflate"
    THEN { <<"Distance code %u is not valid in Deflate", i + 14>>,
           <<"Distance code is not valid in Deflate">> }
    ELSE { <<"Compressed block has a distance '%u' which exceeds the size of the window (%llu bytes)",
             (IF i = 16 THEN 32769 ELSE 49153) + 10922, 1>>,
           <<"Compressed block has a distance which exceeds the size of the window">> }

\* C15: a fixed block with the literal 'a' and a back-reference whose
\* distance symbol is 30 (stream 16) or 31 (stream 17): inflatelib_inflate
\* returns INFLATELIB_ERROR_DATA, naming the symbol, once the third byte, which
\* ends the symbol, has been taken, whether the input came at once (fast path)
\* or byte by byte (slow path); inflatelib_inflate64 reads 14 extra bits on the
\* base 32769 or 49153 and fails only because that distance is not in the
\* window, once the fifth byte has been taken.
C15_DistanceSymbols ==
    (input \in {16, 17} /\ ReachedDecoder(call))
        => /\ IsPrefix(out, <<97>>)
           /\ call.rc = (IF w.stream.total_in >= (IF call.op = "inflate" THEN 3 ELSE 5)
                         THEN INFLATELIB_ERROR_DATA ELSE INFLATELIB_OK)
           /\ call.rc = INFLATELIB_ERROR_DATA => ErrorText \in DistanceErrors(call.op, input)

\* symbol 30 has been refused on the fast path, the whole input having been
\* offered to the first call
C15_Witness ==
    /\ input = 16
    /\ call.op = "inflate"
    /\ call.rc = INFLATELIB_ERROR_DATA
    /\ call.avail_in = Len(mem)
    /\ ErrorText = <<"Distance code %u is not valid in Deflate", 30>>

\* the number of bytes of a corpus stream up to and including the byte that
\* holds the last bit of its final block: all of it, but for stream 10, whose
\* sixth byte follows the final block
StreamEnd(i) == IF i = 10 THEN 5 ELSE Len(Corpus[i].data)

\* C16: when EOF is returned, total_in and next_in stand at the end of the
\* final block, and input offered beyond it is left in avail_in.
C16_EofConsumesExactly ==
    (IsDecode(call) /\ call.rc = INFLATELIB_EOF)
        => /\ w.stream.total_in = StreamEnd(input)
           /\ w.stream.next_in = StreamEnd(input)
           /\ w.stream.avail_in = Len(mem) - StreamEnd(input)

\* C17 as claimed: when inflatelib_init or inflatelib_reset has returned
\* INFLATELIB_OK, total_in and total_out are zero.
C17_TotalsSinceReset ==
    (call.op \in {"init", "reset"} /\ call.rc = INFLATELIB_OK)
        => w.stream.total_in = 0 /\ w.stream.total_out = 0

\* C17 as amended: inflatelib_init and inflatelib_reset leave total_in and
\* total_out as they are, and a decoding call adds to them the bytes it has
\* taken from the input and written to the output.
C17_TotalsNeverRestart ==
    [][/\ call'.op \in {"init", "reset"}
            => /\ w'.stream.total_in = w.stream.total_in
               /\ w'.stream.total_out = w.stream.total_out
       /\ ReachedDecoder(call')
            => /\ w'.stream.total_in = w.stream.total_in + (w'.stream.next_in - w.stream.next_in)
               /\ w'.stream.total_out = w.stream.total_out + (Len(out') - Len(out))]_vars

\* a reset has succeeded on a stream that had consumed and produced bytes
C17_Witness ==
    /\ call.op = "reset"
    /\ call.rc = INFLATELIB_OK
    /\ w.stream.total_in > 0
    /\ w.stream.total_out > 0
    /\ w.stream.next_in = 0

\* the stream as the caller hands it to the last call
AsOffered(c) == IF IsDecode(c) THEN Offer(w, c.avail_in, c.avail_out) ELSE w

\* C18: a call of inflatelib_inflate, inflatelib_inflate64 or inflatelib_reset
\* that returns INFLATELIB_ERROR_ARG changes nothing but error_msg: the decoder
\* state with its mode, bit buffer and window, the heap, next_in, avail_in,
\* next_out, avail_out, total_in and total_out are as the caller handed them
\* in, nothing is written, and the mode the stream is bound to stays.
C18_ArgErrorFrame ==
    [][(call'.op \in {"inflate", "inflate64", "reset"} /\ call'.rc = INFLATELIB_ERROR_ARG)
          => /\ w' = [AsOffered(call') EXCEPT !.stream.error_msg = w'.stream.error_msg]
             /\ out' = out
             /\ hist'.bound = hist.bound
             /\ hist'.eof = hist.eof]_vars

\* inflatelib_inflate has been refused in the middle of a stream that is bound
\* to Deflate64 and has consumed input and written output
C18_Witness ==
    /\ call.op = "inflate"
    /\ call.rc = INFLATELIB_ERROR_ARG
    /\ w.stream.internal # 0
    /\ w.state.mode = INFLATELIB_MODE_DEFLATE64
    /\ hist.resets = 0
    /\ ~hist.eof
    /\ w.stream.total_in > 0
    /\ w.stream.total_out > 0
    /\ w.stream.avail_in > 0

\* C19: on a stream without internal state (zeroed and never initialised, left
\* by a failed inflatelib_init, or destroyed) inflatelib_inflate,
\* inflatelib_inflate64 and inflatelib_reset return INFLATELIB_ERROR_ARG with
\* the message that names the missing state, and neither the memory that held
\* the decoder state nor the heap is touched.
C19_NoStateIsArgError ==
    [][(w.stream.internal = 0 /\ call'.op \in {"inflate", "inflate64", "reset"})
          => /\ call'.rc = INFLATELIB_ERROR_ARG
             /\ w'.stream.error_msg = NullStateMsg
             /\ w'.stream.internal = 0
             /\ w'.state = w.state
             /\ w'.heap = w.heap
             /\ out' = out]_vars

\* inflatelib_reset has been refused on a stream that was destroyed in the
\* middle of decoding
C19_Witness ==
    /\ hist.life = "destroyed"
    /\ call.op = "reset"
    /\ call.rc = INFLATELIB_ERROR_ARG
    /\ w.stream.internal = 0
    /\ w.state.ifstate # ifstate_init
    /\ w.state.window.total_bytes > 0

StreamBit(m, j) == (m[(j \div 8) + 1] \div Pow2(j % 8)) % 2

\* the n bits of an input from bit `pos` on, the earliest one as bit 0
RECURSIVE StreamBits(_, _, _)
StreamBits(m, pos, n) ==
    IF n = 0 THEN 0 ELSE StreamBit(m, pos) + 2 * StreamBits(m, pos + 1, n - 1)

\* C21: a read that fails leaves every member of the reader as it was, and with
\* it the position in the stream; it fails only when the buffer holds fewer
\* bits than were asked for; and the same read, when it succeeds after more
\* input has been handed over, returns the bits of the input at that position.
C21_FailedReadKeepsPosition ==
    [][call'.op = "bitstream_read_bits"
          => /\ call'.rc = 0 <=> w.state.bitstream.bits_in_buffer < call'.bits
             /\ call'.rc = 0 => /\ w'.state.bitstream = w.state.bitstream
                                /\ LogicalPosition(w'.state.bitstream) = hist.pos
                                /\ hist'.pos = hist.pos
             /\ (call'.rc = 1 /\ hist.failed = call'.bits)
                  => /\ call'.value = StreamBits(BitMem, hist.pos, call'.bits)
                     /\ LogicalPosition(w'.state.bitstream) = hist.pos + call'.bits]_vars

\* the read of 16 bits that failed with 4 and with 12 bits in the buffer has
\* succeeded after the third byte arrived, and returned 0x3CDA
C21_Witness ==
    /\ input = 2
    /\ call.op = "bitstream_read_bits"
    /\ call.rc = 1
    /\ call.bits = 16
    /\ call.value = 15578
    /\ hist.pos = 20
    /\ hist.retried
    /\ w.state.bitstream.bits_in_buffer = 4

TreeLengths == TreeCases[input].lengths

Assigned == {s \in 0..(DIST_TREE_MAX_ELEMENT_COUNT - 1) : TreeLengths[s + 1] > 0}

\* the number of codes of length l
CodesOfLength(l) == Cardinality({s \in Assigned : TreeLengths[s + 1] = l})

\* the codes of the lengths 1..i, counted in codes of length i
RECURSIVE CodeSpaceUsed(_)
CodeSpaceUsed(i) == IF i = 0 THEN 0 ELSE 2 * CodeSpaceUsed(i - 1) + CodesOfLength(i)

\* the canonical code of RFC 1951 for symbol s: the codes of every shorter
\* length come first, then the symbols of the same length in increasing order
CanonicalCode(s) ==
    2 * CodeSpaceUsed(TreeLengths[s + 1] - 1)
    + Cardinality({t \in Assigned : t < s /\ TreeLengths[t + 1] = TreeLengths[s + 1]})

\* the first n bits of the code of s are the bits of the input from `pos` on,
\* the first bit of the input being the most significant bit of the code
SpelledTo(s, pos, n) ==
    \A i \in 0..(n - 1) :
        StreamBit(TreeMem, pos + i) = (CanonicalCode(s) \div Pow2(TreeLengths[s + 1] - 1 - i)) % 2

\* the symbols whose whole code is among the `bits` bits at hand, and those
\* whose code is longer and begins with them
Decodable(pos, bits) ==
    {s \in Assigned : TreeLengths[s + 1] <= bits /\ SpelledTo(s, pos, TreeLengths[s + 1])}

Begun(pos, bits) == {s \in Assigned : TreeLengths[s + 1] > bits /\ SpelledTo(s, pos, bits)}

\* C23: a lookup that asks for more input has consumed no bit and has decoded
\* nothing, and it does so only when the bits at hand begin a code without
\* completing one; the symbols decoded are those of the input whatever the
\* stride (1 byte, 7 bytes, everything): always a prefix of them, and all of
\* them once the input is used up.
C23_LookupNeedsMoreInput ==
    [][call'.op = "huffman_tree_lookup"
          => /\ call'.rc = 0
                  => /\ LogicalPosition(w'.state.bitstream) = hist.pos
                     /\ out' = out
                     /\ Decodable(hist.pos, call'.bits) = {}
                     /\ Begun(hist.pos, call'.bits) # {}
             /\ IsPrefix(out', TreeCases[input].symbols)
             /\ (call'.rc # 1 /\ TreeRest' = 0) => out' = TreeCases[input].symbols]_vars

\* the code of 15 bits that lay across the first and second byte has been
\* decoded after a lookup with 8 bits at hand had asked for more
C23_Witness ==
    /\ input = 1
    /\ hist.stride = 1
    /\ call.op = "huffman_tree_lookup"
    /\ call.rc = 1
    /\ out = <<15>>
    /\ w.state.bitstream.data = 2

\* C24: a lookup fails only when no code is completed by the bits at hand and
\* none begins with them, never when they begin a code; and every lookup fails
\* on the table that has no code.
C24_LookupErrorOnlyOnNoCode ==
    [][call'.op = "huffman_tree_lookup"
          => /\ call'.rc < 0 => (Decodable(hist.pos, call'.bits) = {} /\ Begun(hist.pos, call'.bits) = {})
             /\ Begun(hist.pos, call'.bits) # {} => call'.rc >= 0
             /\ Assigned = {} => call'.rc < 0]_vars

\* 110, which is no code, has been refused after seven symbols were decoded
C24_Witness ==
    /\ input = 2
    /\ call.op = "huffman_tree_lookup"
    /\ call.rc < 0
    /\ hist.pos = 21
    /\ out = TreeCases[2].symbols

\* C25: a lookup returns symbol s exactly when the bits at hand begin with the
\* canonical code of s, and then it consumes as many bits as that code has;
\* no two symbols are decoded from the same bits.
C25_LookupIsCanonical ==
    [][call'.op = "huffman_tree_lookup"
          => /\ call'.rc = 1
                  => /\ call'.symbol \in Decodable(hist.pos, call'.bits)
                     /\ LogicalPosition(w'.state.bitstream) = hist.pos + TreeLengths[call'.symbol + 1]
             /\ Decodable(hist.pos, call'.bits) # {}
                  => /\ call'.rc = 1
                     /\ Decodable(hist.pos, call'.bits) = {call'.symbol}]_vars

\* every symbol of the code of lengths 1 to 15 has been decoded, those of the
\* direct table and those of the tree behind it
C25_Witness ==
    /\ input = 1
    /\ call.op = "huffman_tree_lookup"
    /\ call.rc = 1
    /\ Len(out) = 16
    /\ {out[k] : k \in 1..16} = 0..15

\* more codes of the lengths up to i than the 2^i there are, for some i
OverSubscribed == \E i \in 1..MAX_CODE_LENGTH : CodeSpaceUsed(i) > Pow2(i)

\* C26: huffman_tree_reset fails with INFLATELIB_ERROR_DATA for exactly the
\* vectors that ask for more codes of the lengths up to some i than 2^i, and
\* then the direct table holds no code: each of its entries is unassigned, and
\* nothing behind it has been written.
C26_OverSubscribedRejected ==
    [][call'.op = "huffman_tree_reset"
          => /\ call'.rc = (IF OverSubscribed THEN INFLATELIB_ERROR_DATA ELSE INFLATELIB_OK)
             /\ call'.rc < 0
                  => /\ \A k \in 1..Pow2(w.state.distance_tree.table_bits) :
                            w'.state.distance_tree.entries[k].code_length = 0
                     /\ \A k \in (Pow2(w.state.distance_tree.table_bits) + 1)..DISTANCE_TREE_ARRAY_SIZE :
                            w'.state.distance_tree.entries[k] = w.state.distance_tree.entries[k]
                     /\ Len(w'.state.distance_tree.entries) = DISTANCE_TREE_ARRAY_SIZE]_<<call, vars>>

\* three codes of length 1 have been refused
C26_Witness ==
    /\ input = 4
    /\ call.op = "huffman_tree_reset"
    /\ call.rc = INFLATELIB_ERROR_DATA
    /\ hist.built = "failed"

\* the cell of the window i places after offset `off`, in contents `data`
WindowByte(data, off, i) == WinGet(data, (off + i + 2 * DEFLATE64_WINDOW_SIZE) % DEFLATE64_WINDOW_SIZE)

\* C27: every byte an accepted back-reference appends equals the byte
\* `distance` places before it in what has been written so far: a byte that was
\* there before the copy for the first `distance` bytes, a byte of the same
\* copy after that; so it is when the length exceeds the distance, when source
\* or destination run past the end of the buffer, and at the distance 65536.
C27_CopyRepeatsHistory ==
    [][(call'.op = "window_copy_length_distance" /\ call'.rc >= 0)
          => \A i \in 0..(call'.rc - 1) :
                WindowByte(w'.state.window.data, w.state.window.write_offset, i)
                = WindowByte(IF i < call'.distance THEN w.state.window.data ELSE w'.state.window.data,
                             w.state.window.write_offset, i - call'.distance)]_vars

\* a copy of 65535 bytes from 32768 back, begun at the last cell of the buffer,
\* has been completed
C27_Witness ==
    /\ call.op = "window_copy_length_distance"
    /\ hist.distance = DEFLATE64_WINDOW_SIZE \div 2
    /\ hist.length = DEFLATE64_WINDOW_SIZE - 1
    /\ hist.start = DEFLATE64_WINDOW_SIZE - 1
    /\ hist.pending = 0
    /\ w.state.window.total_bytes = 2 * DEFLATE64_WINDOW_SIZE - 2

\* C28: an accepted copy returns min(length, 65536 - unconsumed bytes), adds
\* as many bytes to the window and leaves every byte that waits for the output
\* as it was; a match cut short is completed by copies of what is left of it,
\* the window being drained in between: each begins where the last one
\* stopped, and when nothing is left the match has added its length to the
\* total.
C28_CopyFillsFreeSpace ==
    [][(call'.op = "window_copy_length_distance" /\ call'.rc >= 0)
          => /\ call'.rc = Min(call'.length, DEFLATE64_WINDOW_SIZE - w.state.window.unconsumed_bytes)
             /\ w'.state.window.unconsumed_bytes = w.state.window.unconsumed_bytes + call'.rc
             /\ w'.state.window.read_offset = w.state.window.read_offset
             /\ w'.state.window.write_offset
                   = (w.state.window.write_offset + call'.rc) % DEFLATE64_WINDOW_SIZE
             /\ \A k \in 0..(w.state.window.unconsumed_bytes - 1) :
                   WindowByte(w'.state.window.data, w.state.window.read_offset, k)
                   = WindowByte(w.state.window.data, w.state.window.read_offset, k)
             /\ hist'.pending + (w'.state.window.total_bytes - hist'.start) = hist'.length
             /\ hist'.pending = 0 => w'.state.window.total_bytes = hist'.start + hist'.length
             /\ call'.rc > 0
                   => WindowByte(w'.state.window.data, w.state.window.write_offset, 0)
                      = WindowByte(w.state.window.data, w.state.window.write_offset, 0 - call'.distance)]_vars

\* the longest match at the longest distance has been completed by a third
\* copy, of its last byte
C28_Witness ==
    /\ call.op = "window_copy_length_distance"
    /\ call.length = 1
    /\ call.rc = 1
    /\ hist.length = MaxMatchLength
    /\ hist.distance = DEFLATE64_WINDOW_SIZE
    /\ hist.pending = 0
    /\ w.state.window.total_bytes = hist.start + MaxMatchLength

\* C29: after every operation on the window, unconsumed_bytes is between 0
\* and 65536 and is the distance from read_offset to write_offset modulo 65536
\* (the offsets are equal exactly when the window is empty or full);
\* total_bytes never decreases except by window_reset, which zeroes both
\* offsets and both counts.
C29_WindowCounts ==
    [][/\ w'.state.window.unconsumed_bytes \in 0..DEFLATE64_WINDOW_SIZE
       /\ w'.state.window.read_offset \in 0..(DEFLATE64_WINDOW_SIZE - 1)
       /\ w'.state.window.write_offset \in 0..(DEFLATE64_WINDOW_SIZE - 1)
       /\ (w'.state.window.write_offset - w'.state.window.read_offset + DEFLATE64_WINDOW_SIZE)
              % DEFLATE64_WINDOW_SIZE
          = w'.state.window.unconsumed_bytes % DEFLATE64_WINDOW_SIZE
       /\ (w'.state.window.write_offset = w'.state.window.read_offset)
              <=> (w'.state.window.unconsumed_bytes \in {0, DEFLATE64_WINDOW_SIZE})
       /\ call'.op # "window_reset" => w'.state.window.total_bytes >= w.state.window.total_bytes
       /\ call'.op = "window_reset"
              => /\ w'.state.window.read_offset = 0
                 /\ w'.state.window.write_offset = 0
                 /\ w'.state.window.unconsumed_bytes = 0
                 /\ w'.state.window.total_bytes = 0]_vars

\* a byte has been written and consumed at once after the window had been
\* drained, which took both offsets past the end of the buffer
C29_Witness ==
    /\ call.op = "window_write_byte_consume"
    /\ w.state.window.unconsumed_bytes = 0
    /\ w.state.window.read_offset = 0
    /\ w.state.window.write_offset = 0
    /\ w.state.window.total_bytes = DEFLATE64_WINDOW_SIZE

\* C30: a literal that the fast path writes straight to the caller's output
\* finds no byte waiting in the window, so that no byte is emitted ahead of or
\* in place of an older one: whatever the calls that suspended and resumed the
\* decoder and the room they gave, the output is the beginning of the plain
\* text.
C30_FastLiteralsInOrder == out = <<>> \/ IsPrefix(out, StarvedPlain)


\* C31: whatever the order of set_data, fill_buffer, read_bits, peek with
\* consume_bits and byte_align, each within what its assertions ask, every read
\* and every peek hands out the bits of the input that follow those already
\* handed out, in the order of the stream (none dropped, none twice, none out of
\* place), and a fill_buffer that follows a fill_buffer with no read between
\* them leaves the reader as it was.
C31_RefillKeepsBits ==
    [][/\ (call'.op = "bitstream_read_bits" /\ call'.rc = 1)
             => call'.value = StreamBits(BitMem, hist.pos, call'.bits)
       /\ call'.op = "bitstream_peek"
             => call'.value % Pow2(call'.rc) = StreamBits(BitMem, hist.pos, call'.rc)
       /\ call'.op = "bitstream_fill_buffer again"
             => w'.state.bitstream = w.state.bitstream]_vars

\* what a call hands back and leaves behind: the output bytes, the return code,
\* the stream's counters and message, the window, the reader and the place in
\* the decoding
Observed(r) ==
    [output |-> r.output, result |-> r.result, stream |-> r.w.stream,
     window |-> r.w.state.window, bitstream |-> r.w.state.bitstream,
     ifstate |-> r.w.state.ifstate, heap |-> r.w.heap]

\* C32: from every state the decoder reaches, a call hands back the same output
\* bytes, leaves the same window, counters and place in the decoding and
\* returns the same code whether inflater_read_compressed may take the fast
\* path or has the slow path only.
C32_FastPathIsSlowPath ==
    (call.rc = INFLATELIB_OK /\ call.op = "inflate" /\ (~call.progress \/ call.avail_out > 0))
        => \A room \in {DEFLATE64_WINDOW_SIZE, DEFLATE64_WINDOW_SIZE + 32} :
              Observed(Inflate(Offer(w, StarveRest, room), INFLATELIB_MODE_DEFLATE, StarvedData, FALSE))
              = Observed(SlowInflate(Offer(w, StarveRest, room), INFLATELIB_MODE_DEFLATE, StarvedData, FALSE))

\* the states between blocks, in the header of a block, and at the end of the stream
BoundaryStates ==
    {"ifstate_reading_bfinal", "ifstate_reading_btype",
     "ifstate_reading_uncompressed_block_len", "ifstate_reading_uncompressed_block_len_complement",
     "ifstate_reading_num_lit_codes", "ifstate_reading_num_dist_codes",
     "ifstate_reading_num_code_len_codes", "ifstate_reading_code_len_codes",
     "ifstate_reading_tree_codes_before", "ifstate_reading_tree_codes_after", "ifstate_eof"}

\* C33: between blocks, in the header of a block and at the end of the stream
\* the window holds no byte that has not been delivered; in the data of a
\* stored block the undelivered bytes and the bytes of the block still to come
\* are at most 65536 together.
C33_BoundaryWindowDrained ==
    /\ w.state.ifstate \in BoundaryStates => w.state.window.unconsumed_bytes = 0
    /\ w.state.ifstate = "ifstate_reading_uncompressed_data"
          => w.state.window.unconsumed_bytes + w.state.block_len <= DEFLATE64_WINDOW_SIZE

\* a stored block that is not the last has been delivered a byte at a time and
\* the decoder is between blocks
C33_Witness ==
    /\ w.state.ifstate = "ifstate_reading_bfinal"
    /\ w.state.btype = 0
    /\ w.stream.total_out > 0
    /\ call.avail_out = 1

\* the last call returned INFLATELIB_OK having taken all its input and with
\* room for output left, and the window holds nothing to deliver: the decoder
\* waits for input
WaitingForInput ==
    /\ call.op \in {"inflate", "inflate64"}
    /\ call.rc = INFLATELIB_OK
    /\ w.stream.avail_in = 0
    /\ w.stream.avail_out > 0
    /\ w.state.window.unconsumed_bytes = 0

\* C34: a call of the same entry point with avail_in = 0, made while the
\* decoder waits for input, returns INFLATELIB_OK, writes no output and leaves
\* next_in, avail_in, next_out, total_in, total_out, the avail_out it was given
\* and the whole decoder state as they were.
C34_IdleCallChangesNothing ==
    [][(WaitingForInput /\ call'.op = call.op /\ call'.avail_in = 0 /\ call'.avail_out > 0)
          => /\ call'.rc = INFLATELIB_OK
             /\ out' = out
             /\ w'.state = w.state
             /\ w'.heap = w.heap
             /\ w'.stream = [w.stream EXCEPT !.avail_out = call'.avail_out]]_<<call, vars>>

\* the decoder waits in the middle of a dynamic header with input still to
\* come, and the call with no input has returned
C34_Witness ==
    /\ WaitingForInput
    /\ call.avail_in = 0
    /\ Rest > 0
    /\ w.state.ifstate = "ifstate_reading_tree_codes_before"

\* between a and b, the locals before and after an iteration of a loop, bits of
\* the input were consumed, a byte went into the window or out of it, or the
\* decoder changed state
Moved(a, b) ==
    \/ LogicalPosition(b.state.bitstream) > LogicalPosition(a.state.bitstream)
    \/ b.state.window.total_bytes > a.state.window.total_bytes
    \/ Len(b.output) > Len(a.output)
    \/ b.state.ifstate # a.state.ifstate

\* every iteration of the loop of inflater_read_compressed_fast entered with
\* the locals cx moves or leaves the loop
RECURSIVE FastLoopMoves(_)
FastLoopMoves(cx) ==
    IF cx.pc = "exit" \/ ~FastPathOpen(cx) THEN TRUE
    ELSE \E n \in {FastSymbol(huffman_tree_lookup_unchecked(cx, "literal_length_tree"))} :
            /\ Moved(cx, n) \/ n.pc = "exit"
            /\ FastLoopMoves(n)

\* every iteration of the loop of inflater_read_compressed entered with the
\* locals cx moves or stops the loop, and so do those of the fast path it enters
RECURSIVE CompressedLoopMoves(_)
CompressedLoopMoves(cx) ==
    IF cx.keepGoing = 0 THEN TRUE
    ELSE \E n \in {ReadCompressedStep(cx)} :
            /\ Moved(cx, n) \/ n.keepGoing = 0
            /\ (cx.state.ifstate = "ifstate_reading_literal_length_code" /\ FastPathOpen(cx) /\ cx.fast)
                  => FastLoopMoves([cx EXCEPT !.pc = "loop", !.result = INFLATELIB_OK])
            /\ CompressedLoopMoves(n)

\* every iteration of the do/while of inflater_process_data entered with the
\* locals cx moves or returns, and so do those of the loops under it
RECURSIVE BlockLoopMoves(_)
BlockLoopMoves(cx) ==
    IF cx.ret THEN TRUE
    ELSE \E n \in {ProcessDataStep(cx)}, c \in {BlockDynamic(BlockHeader(cx))} :
            /\ Moved(cx, n) \/ n.ret
            /\ (~c.ret /\ c.state.btype # 0)
                  => CompressedLoopMoves(CopyOutput([c EXCEPT !.result = INFLATELIB_OK, !.keepGoing = 1]))
            /\ BlockLoopMoves(n)

\* the stream as do_inflate finds it: the first call binds the mode
Bound(world, mode) ==
    IF world.state.ifstate = ifstate_init
    THEN [world EXCEPT !.state.mode = mode, !.state.ifstate = "ifstate_reading_bfinal"]
    ELSE world

\* C35: in every call that reaches the decoder, valid input or not, whatever
\* the room for output and the state the decoder was suspended in, each
\* iteration of the block loop, of the compressed-data loop and of the loop of
\* the fast path consumes bits of the input, moves a byte into or out of the
\* window, changes the decoder's state or stops its loop, and the loops end.
C35_EveryIterationMoves ==
    [][ReachedDecoder(call')
          => \A oom \in OomOutcomes :
                BlockLoopMoves([InflateLocals(Bound(Offer(w, call'.avail_in, call'.avail_out),
                                                    IF call'.op = "inflate"
                                                    THEN INFLATELIB_MODE_DEFLATE
                                                    ELSE INFLATELIB_MODE_DEFLATE64),
                                              mem, oom, TRUE)
                                EXCEPT !.ret = FALSE])]_<<call, vars>>

\* one call has decoded the three blocks of stream 11, the first of them
\* compressed, and has returned the end of the stream
C35_Witness ==
    /\ input = 11
    /\ call.rc = INFLATELIB_EOF
    /\ call.avail_in = Len(mem)
    /\ call.avail_out = MaxOutput
    /\ Len(out) = 6

\* the streams of the corpus that hold a dynamic block
DynamicStreams == {4} \cup (12..15)

\* the decoder state after one call on the whole input with room for all the
\* output, on a stream fresh from inflatelib_init
Uninterrupted(mode) ==
    Inflate(Offer(inflatelib_init(ZeroWorld, 0).w, Len(mem), MaxOutput), mode, mem, FALSE).w.state

\* the decoder is inside the loop that reads the code lengths of the two trees
ReadingTreeCodes ==
    w.state.ifstate \in {"ifstate_reading_tree_codes_before", "ifstate_reading_tree_codes_after"}

\* C36: however the header of a dynamic block is split over the calls, and in
\* particular when a call ends between a code-length symbol 16, 17 or 18 and
\* its extra bits, the decoder keeps the symbol (ifstate_reading_tree_codes_after;
\* the call returned OK with all its input taken, or the repeat was in error),
\* the code lengths read so far are those an uninterrupted read gives at the
\* same places, and once all the input has been taken the code-length array
\* and the count of lengths read are those of the uninterrupted read.
C36_SuspendedRepeatResumes ==
    (input \in DynamicStreams /\ ReachedDecoder(call))
        => \E u \in {Uninterrupted(hist.bound)} :
              /\ ReadingTreeCodes
                    => /\ w.state.loop_counter <= u.loop_counter
                       /\ \A k \in 1..w.state.loop_counter :
                              w.state.code_lengths[k] = u.code_lengths[k]
              /\ w.state.ifstate = "ifstate_reading_tree_codes_after"
                    => /\ w.state.length_code \in 16..18
                       /\ call.rc \in {INFLATELIB_OK, INFLATELIB_ERROR_DATA}
                       /\ call.rc = INFLATELIB_OK => w.stream.avail_in = 0
              /\ Rest = 0 => /\ w.state.code_lengths = u.code_lengths
                             /\ w.state.loop_counter = u.loop_counter

\* the call ended after the second symbol 18 of stream 13 and before its
\* seven extra bits
C36_Witness ==
    /\ input = 13
    /\ w.state.ifstate = "ifstate_reading_tree_codes_after"
    /\ w.state.length_code = 18
    /\ w.state.loop_counter = 138
    /\ call.rc = INFLATELIB_OK

\* C37: in the loop that reads the code lengths of a dynamic block the next
\* index to write, loop_counter, never passes HLIT + HDIST, which is at most
\* the 320 entries of code_lengths; the array keeps its size and nothing past
\* HLIT + HDIST is written; and loop_counter, the three code counts and
\* length_code stay within the 9, 9, 6, 5 and 5 bits of their fields.
C37_CodeLengthWritesInBounds ==
    /\ ReadingTreeCodes
          => /\ w.state.literal_length_code_count \in 257..LITERAL_TREE_MAX_ELEMENT_COUNT
             /\ w.state.distance_code_count \in 1..DIST_TREE_MAX_ELEMENT_COUNT
             /\ w.state.loop_counter
                   <= w.state.literal_length_code_count + w.state.distance_code_count
             /\ \A k \in (w.state.literal_length_code_count + w.state.distance_code_count + 1)
                             ..Len(w.state.code_lengths) :
                    w.state.code_lengths[k] = 0
    /\ Len(w.state.code_lengths) = LITERAL_TREE_MAX_ELEMENT_COUNT + DIST_TREE_MAX_ELEMENT_COUNT
    /\ w.state.loop_counter < Pow2(9)
    /\ w.state.literal_length_code_count < Pow2(9)
    /\ w.state.distance_code_count < Pow2(6)
    /\ w.state.code_length_code_count < Pow2(5)
    /\ w.state.length_code < Pow2(5)

\* a call ended inside the extra bits of a symbol 18 that stands where fewer
\* codes remain than the fewest the symbol repeats
C37_Witness ==
    /\ w.state.ifstate = "ifstate_reading_tree_codes_after"
    /\ w.state.length_code = 18
    /\ w.state.literal_length_code_count + w.state.distance_code_count - w.state.loop_counter < 11
    /\ w.state.loop_counter > 0

\* C38: after every call error_msg is NULL or a string literal (ptr = 0), or
\* it is the formatted message of a stream that has its state, whose
\* error_msg_fmt is that same block and the block is allocated; and the
\* error_msg_fmt of a stream that has its state is NULL or an allocated block.
C38_ErrorMsgNeverDangles ==
    /\ w.stream.error_msg.ptr # 0
          => /\ w.stream.internal # 0
             /\ w.stream.error_msg.ptr = w.state.error_msg_fmt
             /\ w.stream.error_msg.ptr \in w.heap.live
    /\ (w.stream.internal # 0 /\ w.state.error_msg_fmt # 0)
          => w.state.error_msg_fmt \in w.heap.live
    /\ ~w.heap.double_free

\* a call on a stream that has been reset has failed with a formatted message
C38_Witness ==
    /\ hist.resets > 0
    /\ call.rc = INFLATELIB_ERROR_DATA
    /\ w.stream.error_msg.ptr # 0
    /\ w.stream.error_msg.ptr = w.state.error_msg_fmt

\* C39: the tables are allocated with 128, 204 and 1088 entries, and when
\* huffman_tree_reset has built a table from a vector it accepts, the
\* entries written (the 2^table_bits of the lookup part and two for each
\* node of the binary tree part) are no more than the table has; whether
\* it accepts the vector or not, it writes no entry past the end.
C39_TableFits ==
    call.op = "huffman_tree_reset"
        => \E tree \in {w.state[TableAlphabets[input].tree]} :
              /\ tree.data_size = <<CODE_LENGTH_TREE_ARRAY_SIZE, DISTANCE_TREE_ARRAY_SIZE,
                                    LITERAL_LENGTH_TREE_ARRAY_SIZE>>[input]
              /\ Len(tree.entries) = tree.data_size
              /\ call.rc = INFLATELIB_OK => call.used <= tree.data_size

\* one code of 14 bits and 287 of 15 bits fill the literal/length table to its
\* last entry
C39_Witness ==
    /\ call.op = "huffman_tree_reset"
    /\ call.rc = INFLATELIB_OK
    /\ input = 3
    /\ call.used = LITERAL_LENGTH_TREE_ARRAY_SIZE
    /\ Len(hist.lengths) = LITERAL_TREE_MAX_ELEMENT_COUNT

\* the reader holds whole bytes only: between them `buffer` and `extra_buffer`
\* hold a multiple of 8 bits
WholeBytes(bs) == (bs.bits_in_buffer + bs.bits_in_extra_buffer) % 8 = 0

\* what bitstream_copy_bytes asserts of the reader
ByteAligned(bs) == bs.bits_in_buffer % 8 = 0 /\ bs.bits_in_extra_buffer = 0

\* the reader the stored block of this iteration hands to window_copy_bytes,
\* h being the locals after the first switch of the loop body
StoredCopySite(h) ==
    UncompressedComplement(UncompressedLen([h EXCEPT !.pc = "run", !.result = INFLATELIB_OK]))

\* in every iteration of the do/while of inflater_process_data entered with
\* the locals cx that is in a stored block, the reader holds whole bytes when
\* LEN is to be read, and is byte aligned when bytes of the block are copied
RECURSIVE StoredCopiesAligned(_)
StoredCopiesAligned(cx) ==
    IF cx.ret THEN TRUE
    ELSE \E h \in {BlockHeader(cx)} :
            /\ (~h.ret /\ h.state.btype = 0)
                  => /\ WholeBytes(h.state.bitstream)
                     /\ \E c \in {StoredCopySite(h)} :
                           (c.pc # "return" /\ c.state.block_len > 0)
                               => ByteAligned(c.state.bitstream)
            /\ StoredCopiesAligned(ProcessDataStep(cx))

\* C40: in every call that reaches the decoder, whenever a stored block is
\* entered or resumed the reader holds a whole number of bytes, and whenever
\* bytes of the block are copied out of the reader, in the call that read LEN
\* and NLEN or in a later one, `buffer` holds a multiple of 8 bits and
\* `extra_buffer` none, as bitstream_copy_bytes asserts.
C40_StoredCopyAligned ==
    [][ReachedDecoder(call')
          => \A oom \in OomOutcomes :
                StoredCopiesAligned([InflateLocals(Bound(Offer(w, call'.avail_in, call'.avail_out),
                                                         IF call'.op = "inflate"
                                                         THEN INFLATELIB_MODE_DEFLATE
                                                         ELSE INFLATELIB_MODE_DEFLATE64),
                                                   mem, oom, TRUE)
                                     EXCEPT !.ret = FALSE])]_<<call, vars>>

\* the last stored block of stream 11, which follows a compressed block and
\* an empty stored block, has given one of its two bytes
C40_Witness ==
    /\ input = 11
    /\ w.state.ifstate = "ifstate_reading_uncompressed_data"
    /\ w.state.block_len = 1
    /\ Len(out) = 5
    /\ call.rc = INFLATELIB_OK
====
